---------------------------- MODULE Spec2Model ----------------------------
(***************************************************************************)
(* Model of the underwriting matching core of the lender matching          *)
(* platform: the rule evaluators and the rule engine (services/rule_engine *)
(* engine.py, base.py, evaluators/), the three-tier matcher (matcher.py),  *)
(* and the underwriting orchestrator with its run store                    *)
(* (underwriting_service.py, repositories/match_repository.py).            *)
(*                                                                         *)
(* Numbers.  Decimal scores, weights and fit scores are integers counting  *)
(* hundredths (2.00 is 200, 120.00 is 12000).  Money amounts are whole     *)
(* dollars.  An absent Optional value (Python None) is NoValue.            *)
(***************************************************************************)
EXTENDS Integers, Sequences, FiniteSets, TLC

VARIABLES
    application,    \* the LoanApplication aggregate (found = FALSE: no such row)
    lenders,        \* the lender table, in name order
    mpc,            \* position of the matcher call: "ready" | "done" | "repeated"
    match_out,      \* what match_application_to_lenders returned (or that it raised)
    pc,             \* position of run_underwriting
    pending,        \* the rows as the session's open transaction sees them
    committed,      \* the rows as committed to the database
    status_writes,  \* every status value run_underwriting wrote to the run, in order
    caught,         \* the exception bound to e in the except block
    raised,         \* the exception that left run_underwriting
    healthy,        \* FALSE once a statement failed inside the open transaction
    loaded          \* the lenders returned by get_active_lenders_with_policies

mvars == <<application, lenders, mpc, match_out>>

ovars == <<pc, pending, committed, status_writes, caught, raised, healthy, loaded>>

vars == <<application, lenders, mpc, match_out,
          pc, pending, committed, status_writes, caught, raised, healthy, loaded>>

---------------------------------------------------------------------------
(* Values *)

NoValue == -1

\* A number taken from JSON that Decimal(str(x)) cannot parse.
Malformed == -2

EmptyDict == [k \in {} |-> 0]

HasKey(d, k) == k \in DOMAIN d

\* dict.get(k) followed by a truth test, for boolean-valued keys.
GetTruthy(d, k) == HasKey(d, k) /\ d[k] = TRUE

\* Python truth value of an Optional[Decimal] / Optional[int]: None and 0 are falsy.
Truthy(x) == x # NoValue /\ x # 0

\* str.lower() on the industry names the model uses.
Lower(s) ==
    CASE s = "Trucking" -> "trucking"
      [] s = "TRUCKING" -> "trucking"
      [] s = "Medical"  -> "medical"
      [] s = "MEDICAL"  -> "medical"
      [] OTHER          -> s

InSeq(x, s) == \E i \in 1..Len(s) : s[i] = x

LowerAll(s) == [i \in 1..Len(s) |-> Lower(s[i])]

\* Decimal.quantize(Decimal("0.01")) of n/d under ROUND_HALF_EVEN, n >= 0, d > 0.
RoundHalfEven(n, d) ==
    LET q == n \div d
        r == n % d
    IN  IF 2 * r < d THEN q
        ELSE IF 2 * r > d THEN q + 1
        ELSE IF q % 2 = 0 THEN q ELSE q + 1

---------------------------------------------------------------------------
(* Rule kinds and the evaluator registry *)

RuleType ==
    { "min_fico", "min_paynet", "credit_tier", "max_credit_utilization",
      "time_in_business", "min_revenue", "legal_structure",
      "min_loan_amount", "max_loan_amount", "min_loan_term", "max_loan_term",
      "min_down_payment", "max_ltv",
      "equipment_type", "equipment_age", "equipment_condition",
      "excluded_states", "excluded_industries", "allowed_states",
      "allowed_industries",
      "bankruptcy_history", "homeowner_required", "us_citizen_required",
      "custom" }

\* The keys of RuleEngine._evaluators after _register_default_evaluators.
Registered ==
    { "min_fico", "min_paynet", "credit_tier", "max_credit_utilization",
      "time_in_business", "min_revenue", "legal_structure",
      "min_loan_amount", "max_loan_amount", "min_loan_term", "max_loan_term",
      "min_down_payment", "max_ltv",
      "equipment_type", "equipment_age", "equipment_condition",
      "excluded_states", "excluded_industries", "allowed_states",
      "allowed_industries" }

---------------------------------------------------------------------------
(* Rule evaluators: one result per rule, or an exception *)

EvaluationResult(passed, score, weight, mandatory, reason) ==
    [ raised |-> FALSE, passed |-> passed, score |-> score, weight |-> weight,
      is_mandatory |-> mandatory, reason |-> reason, error |-> FALSE ]

Raised == [ raised |-> TRUE ]

\* Variant of the score that awards no partial credit.
CalculateScoreAllOrNothing(passed, weight, pnum, pden) ==
    IF passed THEN 100 * weight ELSE 0

\* partial_credit is the fraction pnum/pden.
CalculateScore(passed, weight, pnum, pden) ==
    IF passed THEN 100 * weight
    ELSE IF pnum > 0 THEN (100 * weight * pnum) \div pden
    ELSE 0

FicoBand == 50

EvaluateMinFico(app, rule) ==
    IF ~HasKey(rule.criteria, "min_score") THEN Raised
    ELSE
      LET min_score == rule.criteria["min_score"]
          actual    == app.guarantor.fico_score
      IN  IF actual = NoValue
          THEN EvaluationResult(FALSE, 0, rule.weight, rule.is_mandatory, "fico_required")
          ELSE IF actual >= min_score
          THEN EvaluationResult(TRUE, CalculateScore(TRUE, rule.weight, 0, 1),
                                rule.weight, rule.is_mandatory, "fico_meets")
          ELSE LET score_gap == min_score - actual
                   score == IF score_gap <= FicoBand
                            THEN CalculateScore(FALSE, rule.weight,
                                                FicoBand - score_gap, FicoBand)
                            ELSE 0
               IN  EvaluationResult(FALSE, score, rule.weight, rule.is_mandatory,
                                    "fico_below")

EvaluateMaxLoanAmount(app, rule) ==
    IF ~HasKey(rule.criteria, "max_amount") THEN Raised
    ELSE IF rule.criteria["max_amount"] = Malformed THEN Raised
    ELSE
      LET max_amount == rule.criteria["max_amount"]
          passed     == app.requested_amount <= max_amount
      IN  IF passed
          THEN EvaluationResult(TRUE, CalculateScore(TRUE, rule.weight, 0, 1),
                                rule.weight, rule.is_mandatory, "amount_within")
          ELSE EvaluationResult(FALSE, 0, rule.weight, rule.is_mandatory,
                                "amount_exceeds")

AgeBand == 2

EvaluateEquipmentAge(app, rule, current_year) ==
    IF ~HasKey(rule.criteria, "max_age_years") THEN Raised
    ELSE
      LET max_age == rule.criteria["max_age_years"]
          eq      == app.equipment
      IN  IF eq.year_manufactured = NoValue /\ eq.condition # "New"
          THEN EvaluationResult(FALSE, 0, rule.weight, rule.is_mandatory, "year_required")
          ELSE
            LET actual_age == IF eq.year_manufactured = NoValue THEN 0
                              ELSE current_year - eq.year_manufactured
            IN  IF actual_age <= max_age
                THEN EvaluationResult(TRUE, CalculateScore(TRUE, rule.weight, 0, 1),
                                      rule.weight, rule.is_mandatory, "age_within")
                ELSE LET age_excess == actual_age - max_age
                         score == IF age_excess <= AgeBand
                                  THEN CalculateScore(FALSE, rule.weight,
                                                      AgeBand - age_excess, AgeBand)
                                  ELSE 0
                     IN  EvaluationResult(FALSE, score, rule.weight,
                                          rule.is_mandatory, "age_exceeds")

CurrentYear == 2025

\* evaluator.evaluate(context) for the rule kinds the catalogs of this model use.
Evaluate(app, rule) ==
    CASE rule.rule_type = "min_fico"        -> EvaluateMinFico(app, rule)
      [] rule.rule_type = "max_loan_amount" -> EvaluateMaxLoanAmount(app, rule)
      [] rule.rule_type = "equipment_age"   -> EvaluateEquipmentAge(app, rule, CurrentYear)
      [] OTHER                              -> Raised

---------------------------------------------------------------------------
(* Rule engine: RuleEngine.evaluate_program *)

ActiveRules(program) == SelectSeq(program.rules, LAMBDA r : r.active)

\* Variant of the failed result that forgets the rule's mandatory flag.
FailedResultLosingMandatory(rule) ==
    [ raised |-> FALSE, passed |-> FALSE, score |-> 0, weight |-> rule.weight,
      is_mandatory |-> FALSE, reason |-> "evaluation_error", error |-> TRUE ]

\* The synthetic failed result of the except branch.
FailedResult(rule) ==
    [ raised |-> FALSE, passed |-> FALSE, score |-> 0, weight |-> rule.weight,
      is_mandatory |-> rule.is_mandatory, reason |-> "evaluation_error",
      error |-> TRUE ]

\* Variant of the loop body in which a rule whose evaluator raised adds nothing
\* to total_weight.
AccumulateWithoutErrorWeight(rule, acc, result) ==
    IF ~result.raised
    THEN [ acc EXCEPT !.rule_results = Append(@, [rule |-> rule, result |-> result]),
                      !.total_score = @ + result.score,
                      !.total_weight = @ + result.weight,
                      !.rules_passed = @ + (IF result.passed THEN 1 ELSE 0),
                      !.rules_failed = @ + (IF result.passed THEN 0 ELSE 1),
                      !.all_mandatory_passed =
                          @ /\ ~(~result.passed /\ result.is_mandatory) ]
    ELSE [ acc EXCEPT !.rule_results =
                          Append(@, [rule |-> rule, result |-> FailedResult(rule)]),
                      !.rules_failed = @ + 1,
                      !.all_mandatory_passed = @ /\ ~rule.is_mandatory ]

\* Variant of the loop body in which a rule whose evaluator raised leaves no
\* result behind.
AccumulateDroppingErrors(rule, acc, result) ==
    IF ~result.raised
    THEN [ acc EXCEPT !.rule_results = Append(@, [rule |-> rule, result |-> result]),
                      !.total_score = @ + result.score,
                      !.total_weight = @ + result.weight,
                      !.rules_passed = @ + (IF result.passed THEN 1 ELSE 0),
                      !.rules_failed = @ + (IF result.passed THEN 0 ELSE 1),
                      !.all_mandatory_passed =
                          @ /\ ~(~result.passed /\ result.is_mandatory) ]
    ELSE acc

\* The loop body after evaluator.evaluate(context) returned result or raised:
\* acc carries the loop's locals.
Accumulate(rule, acc, result) ==
    IF ~result.raised
    THEN [ rule_results  |-> Append(acc.rule_results,
                                    [rule |-> rule, result |-> result]),
           total_score   |-> acc.total_score + result.score,
           total_weight  |-> acc.total_weight + result.weight,
           rules_passed  |-> acc.rules_passed + (IF result.passed THEN 1 ELSE 0),
           rules_failed  |-> acc.rules_failed + (IF result.passed THEN 0 ELSE 1),
           all_mandatory_passed |->
               acc.all_mandatory_passed
               /\ ~(~result.passed /\ result.is_mandatory) ]
    ELSE [ rule_results  |-> Append(acc.rule_results,
                                    [rule |-> rule, result |-> FailedResult(rule)]),
           total_score   |-> acc.total_score,
           total_weight  |-> acc.total_weight + rule.weight,
           rules_passed  |-> acc.rules_passed,
           rules_failed  |-> acc.rules_failed + 1,
           all_mandatory_passed |->
               acc.all_mandatory_passed /\ ~rule.is_mandatory ]

\* One iteration of the loop over active_rules: a rule whose kind has no
\* registered evaluator is skipped.
EvaluateStep(app, rule, acc) ==
    IF rule.rule_type \notin Registered THEN acc
    ELSE Accumulate(rule, acc, Evaluate(app, rule))

RECURSIVE EvaluateLoop(_, _, _, _)
EvaluateLoop(app, rules, i, acc) ==
    IF i > Len(rules) THEN acc
    ELSE EvaluateLoop(app, rules, i + 1, EvaluateStep(app, rules[i], acc))

\* Variant of the fit score that is not divided by the total weight.
FitScoreUnnormalized(total_score, total_weight) ==
    IF total_weight > 0 THEN total_score ELSE 0

FitScore(total_score, total_weight) ==
    IF total_weight > 0 THEN RoundHalfEven(100 * total_score, total_weight)
    ELSE 0

\* Variant of the eligibility decision that ignores min_fit_score.
IsEligibleWithoutFloor(all_mandatory_passed, fit_score, min_fit_score) ==
    all_mandatory_passed

\* Variant of the eligibility decision that ignores the mandatory rules.
IsEligibleOnFitOnly(all_mandatory_passed, fit_score, min_fit_score) ==
    ~( Truthy(min_fit_score) /\ fit_score < min_fit_score )

\* is_eligible = all_mandatory_passed, lowered when a truthy min_fit_score is not met.
IsEligible(all_mandatory_passed, fit_score, min_fit_score) ==
    IF Truthy(min_fit_score) /\ fit_score < min_fit_score THEN FALSE
    ELSE all_mandatory_passed

\* The ProgramEvaluationResult built from the loop's locals and the fit score.
ProgramEvaluationResult(program, pid, acc, fit_score) ==
    [ raised |-> FALSE,
      program |-> pid,
      min_fit_score |-> program.min_fit_score,
      is_eligible |-> IsEligible(acc.all_mandatory_passed, fit_score,
                                 program.min_fit_score),
      fit_score |-> fit_score,
      total_rules_evaluated |-> Len(ActiveRules(program)),
      rules_passed |-> acc.rules_passed,
      rules_failed |-> acc.rules_failed,
      mandatory_rules_passed |-> acc.all_mandatory_passed,
      rule_results |-> acc.rule_results ]

ScoreProgram(program, pid, acc) ==
    ProgramEvaluationResult(program, pid, acc,
                            FitScore(acc.total_score, acc.total_weight))

\* evaluate_program; raised when a nested entity of the application is missing.
EvaluateProgram(app, program, pid) ==
    IF ~app.has_business \/ ~app.has_guarantor \/ ~app.has_equipment
    THEN [ raised |-> TRUE ]
    ELSE ScoreProgram(program, pid,
                      EvaluateLoop(app, ActiveRules(program), 1,
                                   [ rule_results |-> <<>>, total_score |-> 0,
                                     total_weight |-> 0, rules_passed |-> 0,
                                     rules_failed |-> 0,
                                     all_mandatory_passed |-> TRUE ]))

---------------------------------------------------------------------------
(* Rate and probability scorer: ScoringEngine *)

\* First row, in list order, whose [min_amount, max_amount] contains the amount;
\* rows lacking min_amount, max_amount or rate are skipped.  NoValue when none.
RECURSIVE FindBaseRate(_, _, _)
FindBaseRate(base_rates, loan_amount, i) ==
    IF i > Len(base_rates) THEN NoValue
    ELSE LET row == base_rates[i]
         IN  IF row.min_amount = NoValue \/ row.max_amount = NoValue
                \/ row.rate = NoValue
             THEN FindBaseRate(base_rates, loan_amount, i + 1)
             ELSE IF row.min_amount <= loan_amount /\ loan_amount <= row.max_amount
             THEN row.rate
             ELSE FindBaseRate(base_rates, loan_amount, i + 1)

\* A condition string is the sequence of its characters.
Contains(s, sub) ==
    \E i \in 1..(Len(s) - Len(sub) + 1) : SubSeq(s, i, i + Len(sub) - 1) = sub

\* Index of the first occurrence of sub in s (s contains sub).
Find(s, sub) ==
    CHOOSE i \in 1..(Len(s) - Len(sub) + 1) :
       /\ SubSeq(s, i, i + Len(sub) - 1) = sub
       /\ \A h \in 1..(i - 1) : SubSeq(s, h, h + Len(sub) - 1) # sub

\* The text after the first occurrence of sep in s.
After(s, sep) == SubSeq(s, Find(s, sep) + Len(sep), Len(s))

\* s.split(sep)[1] for s containing sep: the text between the first and the
\* second occurrence of sep.
SplitSecond(s, sep) ==
    IF Contains(After(s, sep), sep)
    THEN SubSeq(After(s, sep), 1, Find(After(s, sep), sep) - 1)
    ELSE After(s, sep)

\* str.strip() for the blank.
Strip(s) ==
    IF \A i \in 1..Len(s) : s[i] = " " THEN <<>>
    ELSE SubSeq(s, CHOOSE i \in 1..Len(s) :
                      s[i] # " " /\ \A h \in 1..(i - 1) : s[h] = " ",
                   CHOOSE j \in 1..Len(s) :
                      s[j] # " " /\ \A h \in (j + 1)..Len(s) : s[h] = " ")

LowerChar(c) ==
    CASE c = "F" -> "f" [] c = "I" -> "i" [] c = "C" -> "c" [] c = "O" -> "o"
      [] OTHER -> c

LowerStr(s) == [ i \in 1..Len(s) |-> LowerChar(s[i]) ]

Digits == << "0", "1", "2", "3", "4", "5", "6", "7", "8", "9" >>

DigitValue(c) == (CHOOSE d \in 1..10 : Digits[d] = c) - 1

RECURSIVE DecimalValue(_, _)
DecimalValue(s, n) ==
    IF n = 0 THEN 0 ELSE 10 * DecimalValue(s, n - 1) + DigitValue(s[n])

\* int(text) of stripped text: an optional sign and decimal digits; ok is
\* FALSE where int() raises ValueError.
ParseInt(s) ==
    IF Len(s) > 0 /\ \A i \in 1..Len(s) : InSeq(s[i], Digits)
    THEN [ ok |-> TRUE, value |-> DecimalValue(s, Len(s)) ]
    ELSE IF Len(s) > 1 /\ s[1] \in { "-", "+" }
            /\ \A i \in 2..Len(s) : InSeq(s[i], Digits)
    THEN [ ok |-> TRUE,
           value |-> (IF s[1] = "-" THEN -1 ELSE 1)
                     * DecimalValue(Tail(s), Len(s) - 1) ]
    ELSE [ ok |-> FALSE, value |-> 0 ]

CompareOp(op, value, threshold) ==
    CASE op = ">=" -> value >= threshold
      [] op = ">"  -> value > threshold
      [] op = "<=" -> value <= threshold
      [] op = "<"  -> value < threshold
      [] OTHER     -> FALSE

\* The try block for one operator: threshold = int(condition.split(op)[1].strip()),
\* False on ValueError ("yes" / "no" for what the branch returns).
CompareSplit(condition, sep, op, value) ==
    IF /\ ParseInt(Strip(SplitSecond(condition, sep))).ok
       /\ CompareOp(op, value, ParseInt(Strip(SplitSecond(condition, sep))).value)
    THEN "yes" ELSE "no"

\* The branch for one variable, entered when its name occurs in the condition
\* and its value is present; "fall" when the condition has neither > nor <.
CompareVariable(condition, value) ==
    IF Contains(condition, << ">" >>)
    THEN IF Contains(condition, << ">", "=" >>)
         THEN CompareSplit(condition, << ">", "=" >>, ">=", value)
         ELSE CompareSplit(condition, << ">" >>, ">", value)
    ELSE IF Contains(condition, << "<" >>)
    THEN IF Contains(condition, << "<", "=" >>)
         THEN CompareSplit(condition, << "<", "=" >>, "<=", value)
         ELSE CompareSplit(condition, << "<" >>, "<", value)
    ELSE "fall"

EquipmentAgeName ==
    << "e", "q", "u", "i", "p", "m", "e", "n", "t", "_", "a", "g", "e" >>

FicoName == << "f", "i", "c", "o" >>

\* The condition after strip().lower().
EvaluateNormalized(condition, equipment_age_years, fico_score) ==
    IF Contains(condition, EquipmentAgeName) /\ equipment_age_years = NoValue
    THEN FALSE
    ELSE IF Contains(condition, EquipmentAgeName)
            /\ CompareVariable(condition, equipment_age_years) # "fall"
    THEN CompareVariable(condition, equipment_age_years) = "yes"
    ELSE IF Contains(condition, FicoName) /\ fico_score = NoValue THEN FALSE
    ELSE IF Contains(condition, FicoName)
            /\ CompareVariable(condition, fico_score) # "fall"
    THEN CompareVariable(condition, fico_score) = "yes"
    ELSE FALSE

EvaluateAdjustmentCondition(condition, equipment_age_years, fico_score) ==
    IF condition = <<>> THEN FALSE
    ELSE EvaluateNormalized(LowerStr(Strip(condition)),
                            equipment_age_years, fico_score)

RECURSIVE TotalAdjustment(_, _, _, _)
TotalAdjustment(adjustments, equipment_age_years, fico_score, i) ==
    IF i > Len(adjustments) THEN 0
    ELSE (IF EvaluateAdjustmentCondition(adjustments[i].condition,
                                         equipment_age_years, fico_score)
          THEN adjustments[i].delta ELSE 0)
         + TotalAdjustment(adjustments, equipment_age_years, fico_score, i + 1)

Max(a, b) == IF a >= b THEN a ELSE b
Min(a, b) == IF a <= b THEN a ELSE b

\* rate_metadata is EmptyDict (falsy: no estimate) or [base_rates, adjustments].
EstimateRate(program, loan_amount, equipment_age_years, fico_score) ==
    IF ~HasKey(program.rate_metadata, "base_rates") THEN NoValue
    ELSE
      LET base_rate == FindBaseRate(program.rate_metadata.base_rates, loan_amount, 1)
      IN  IF base_rate = NoValue THEN NoValue
          ELSE Max(0, base_rate
                      + TotalAdjustment(program.rate_metadata.adjustments,
                                        equipment_age_years, fico_score, 1))

\* The unit of an approval probability: one hundredth is ProbabilityUnit units,
\* so that the quotients by 10.00 and 60.00 are exact.
ProbabilityUnit == 60

\* Variant of the probability that disregards the mandatory rules.
CalculateApprovalProbabilityOfFitOnly(fit_score, mandatory_rules_passed) ==
    IF fit_score >= 9000 THEN ProbabilityUnit * Min(10000, 9000 + (fit_score - 9000))
    ELSE IF fit_score >= 8000
    THEN ProbabilityUnit * 7000 + ((fit_score - 8000) * ProbabilityUnit * 1900) \div 1000
    ELSE IF fit_score >= 7000
    THEN ProbabilityUnit * 5000 + ((fit_score - 7000) * ProbabilityUnit * 1900) \div 1000
    ELSE IF fit_score >= 6000
    THEN ProbabilityUnit * 3000 + ((fit_score - 6000) * ProbabilityUnit * 1900) \div 1000
    ELSE Max(ProbabilityUnit * 1000,
             ProbabilityUnit * 1000
               + (Min(fit_score, 6000) * ProbabilityUnit * 1900) \div 6000)

\* Piecewise map of the fit score (hundredths in, ProbabilityUnit-ths of a
\* hundredth out): probability = low + (score_in_range / width) * 19.00.
CalculateApprovalProbability(fit_score, mandatory_rules_passed) ==
    IF ~mandatory_rules_passed THEN 0
    ELSE IF fit_score >= 9000 THEN ProbabilityUnit * Min(10000, 9000 + (fit_score - 9000))
    ELSE IF fit_score >= 8000
    THEN ProbabilityUnit * 7000 + ((fit_score - 8000) * ProbabilityUnit * 1900) \div 1000
    ELSE IF fit_score >= 7000
    THEN ProbabilityUnit * 5000 + ((fit_score - 7000) * ProbabilityUnit * 1900) \div 1000
    ELSE IF fit_score >= 6000
    THEN ProbabilityUnit * 3000 + ((fit_score - 6000) * ProbabilityUnit * 1900) \div 1000
    ELSE Max(ProbabilityUnit * 1000,
             ProbabilityUnit * 1000
               + (Min(fit_score, 6000) * ProbabilityUnit * 1900) \div 6000)

\* Equipment.age_years: None unless year_manufactured is truthy.
AgeYears(equipment, current_year) ==
    IF Truthy(equipment.year_manufactured)
    THEN current_year - equipment.year_manufactured
    ELSE NoValue

---------------------------------------------------------------------------
(* Three-tier matcher: Matcher *)

Tier1LenderFiltering(app, lender) ==
    IF ~lender.active
    THEN [passed |-> FALSE, reason |-> "lender_not_active"]
    ELSE IF Len(lender.excluded_states) > 0
            /\ InSeq(app.business.state, lender.excluded_states)
    THEN [passed |-> FALSE, reason |-> "state_excluded"]
    ELSE IF Len(lender.excluded_industries) > 0
            /\ InSeq(Lower(app.business.industry), LowerAll(lender.excluded_industries))
    THEN [passed |-> FALSE, reason |-> "industry_excluded"]
    ELSE IF Truthy(lender.min_loan_amount)
            /\ app.requested_amount < lender.min_loan_amount
    THEN [passed |-> FALSE, reason |-> "below_lender_minimum"]
    ELSE IF Truthy(lender.max_loan_amount)
            /\ app.requested_amount > lender.max_loan_amount
    THEN [passed |-> FALSE, reason |-> "exceeds_lender_maximum"]
    ELSE [passed |-> TRUE, reason |-> "none"]

\* "ok", "no" or "raise" (Decimal(str(min_revenue)) on a malformed number).
CheckProgramEligibility(app, program) ==
    LET conditions == program.eligibility_conditions
        business   == app.business
        guarantor  == app.guarantor
    IN  IF DOMAIN conditions = {} THEN "ok"
        ELSE IF GetTruthy(conditions, "requires_paynet")
                /\ ~Truthy(guarantor.paynet_score) THEN "no"
        ELSE IF HasKey(conditions, "legal_structure")
                /\ ~InSeq(business.legal_structure, conditions["legal_structure"])
        THEN "no"
        ELSE IF HasKey(conditions, "industry")
                /\ ~InSeq(Lower(business.industry), LowerAll(conditions["industry"]))
        THEN "no"
        ELSE IF HasKey(conditions, "min_revenue")
                /\ business.annual_revenue = NoValue THEN "no"
        ELSE IF HasKey(conditions, "min_revenue")
                /\ conditions["min_revenue"] = Malformed THEN "raise"
        ELSE IF HasKey(conditions, "min_revenue")
                /\ business.annual_revenue < conditions["min_revenue"] THEN "no"
        ELSE IF GetTruthy(conditions, "homeowner_required")
                /\ ~guarantor.is_homeowner THEN "no"
        ELSE IF GetTruthy(conditions, "us_citizen_required")
                /\ ~guarantor.is_us_citizen THEN "no"
        ELSE "ok"

\* Indices, in lender.programs order, of the active programs that pass Tier 2;
\* <<0>> alone stands for an exception raised while checking a program.
RECURSIVE Tier2ProgramSelection(_, _, _)
Tier2ProgramSelection(app, lender, i) ==
    IF i > Len(lender.programs) THEN <<>>
    ELSE IF ~lender.programs[i].active THEN Tier2ProgramSelection(app, lender, i + 1)
    ELSE LET c    == CheckProgramEligibility(app, lender.programs[i])
             rest == Tier2ProgramSelection(app, lender, i + 1)
         IN  IF c = "raise" \/ rest = <<0>> THEN <<0>>
             ELSE IF c = "ok" THEN <<i>> \o rest
             ELSE rest

Tier3RuleEvaluation(app, lender, pid) == EvaluateProgram(app, lender.programs[pid], pid)

\* The loop over eligible_programs keeping the strictly better fit score.
RECURSIVE BestMatch(_, _, _, _, _)
RECURSIVE KeepBetter(_, _, _, _, _, _)
\* Variant of the comparison that also replaces the best program on an equal
\* fit score.
RECURSIVE KeepBetterOrEqual(_, _, _, _, _, _)
KeepBetterOrEqual(app, lender, eligible, k, best, tier3_result) ==
    IF tier3_result.raised THEN tier3_result
    ELSE IF tier3_result.fit_score >= best.fit_score
    THEN BestMatch(app, lender, eligible, k + 1, tier3_result)
    ELSE BestMatch(app, lender, eligible, k + 1, best)

\* Variant of the retention that prefers an eligible program to an ineligible
\* one before comparing fit scores.
KeepEligible(app, lender, eligible, k, best, tier3_result) ==
    IF tier3_result.raised THEN tier3_result
    ELSE IF \/ best.program = NoValue
            \/ tier3_result.is_eligible /\ ~best.is_eligible
            \/ tier3_result.is_eligible = best.is_eligible
                 /\ tier3_result.fit_score > best.fit_score
    THEN BestMatch(app, lender, eligible, k + 1, tier3_result)
    ELSE BestMatch(app, lender, eligible, k + 1, best)

KeepBetter(app, lender, eligible, k, best, tier3_result) ==
    IF tier3_result.raised THEN tier3_result
    ELSE IF tier3_result.fit_score > best.fit_score
    THEN BestMatch(app, lender, eligible, k + 1, tier3_result)
    ELSE BestMatch(app, lender, eligible, k + 1, best)

BestMatch(app, lender, eligible, k, best) ==
    IF k > Len(eligible) THEN best
    ELSE KeepBetter(app, lender, eligible, k, best,
                    Tier3RuleEvaluation(app, lender, eligible[k]))

NoBest == [ raised |-> FALSE, program |-> NoValue, fit_score |-> -100 ]

RejectionReason(best_match) ==
    IF best_match.is_eligible THEN "none"
    ELSE IF \E j \in 1..Len(best_match.rule_results) :
               best_match.rule_results[j].result.is_mandatory
               /\ ~best_match.rule_results[j].result.passed
    THEN "failed_mandatory_rules"
    ELSE IF best_match.fit_score < best_match.min_fit_score
    THEN "fit_score_below_minimum"
    ELSE "failed_program_requirements"

MatchResult(lender, program, is_eligible, fit_score, reason, tier, rate, prob, evals) ==
    [ lender |-> lender, program |-> program, is_eligible |-> is_eligible,
      fit_score |-> fit_score, rejection_reason |-> reason, rejection_tier |-> tier,
      estimated_rate |-> rate, approval_probability |-> prob,
      rule_evaluations |-> evals ]

\* The match appended for the retained program (none when nothing was retained).
RetainedMatch(app, lender, best_match) ==
    IF best_match.raised THEN [ raised |-> TRUE, results |-> <<>> ]
    ELSE IF best_match.program = NoValue
    THEN [ raised |-> FALSE, results |-> <<>> ]
    ELSE [ raised |-> FALSE,
           results |-> << MatchResult(
              lender.id, best_match.program, best_match.is_eligible,
              best_match.fit_score, RejectionReason(best_match),
              IF best_match.is_eligible THEN NoValue ELSE 3,
              EstimateRate(lender.programs[best_match.program],
                           app.requested_amount,
                           AgeYears(app.equipment, CurrentYear),
                           app.guarantor.fico_score),
              CalculateApprovalProbability(best_match.fit_score,
                                           best_match.mandatory_rules_passed),
              best_match.rule_results) >> ]

\* Tier 3 over the eligible programs, or the tier-2 rejection when there is none.
SelectedMatch(app, lender, eligible_programs) ==
    IF eligible_programs = <<0>> THEN [ raised |-> TRUE, results |-> <<>> ]
    ELSE IF eligible_programs = <<>>
    THEN [ raised |-> FALSE,
           results |-> << MatchResult(lender.id, NoValue, FALSE, 0,
                                      "no_eligible_programs", 2, NoValue, 0, <<>>) >> ]
    ELSE RetainedMatch(app, lender,
                       BestMatch(app, lender, eligible_programs, 1, NoBest))

\* Tier 2 for a lender that passed Tier 1, or the tier-1 rejection.
FilteredMatch(app, lender, tier1_result) ==
    IF ~tier1_result.passed
    THEN [ raised |-> FALSE,
           results |-> << MatchResult(lender.id, NoValue, FALSE, 0,
                                      tier1_result.reason, 1, NoValue, 0, <<>>) >> ]
    ELSE SelectedMatch(app, lender, Tier2ProgramSelection(app, lender, 1))

\* The body of the loop for one lender: the results it appends, or that an
\* exception left the matcher.
MatchLender(app, lender) ==
    FilteredMatch(app, lender, Tier1LenderFiltering(app, lender))

\* sort key (not is_eligible, -fit_score): a sorts strictly before b.
SortsBefore(a, b) ==
    \/ a.is_eligible /\ ~b.is_eligible
    \/ a.is_eligible = b.is_eligible /\ a.fit_score > b.fit_score

\* Variant of the position that puts later elements first among equal keys.
SortPositionUnstable(results, i) ==
    1 + Cardinality({ j \in 1..Len(results) :
                        \/ SortsBefore(results[j], results[i])
                        \/ ~SortsBefore(results[i], results[j]) /\ j > i })

\* list.sort is stable: the position of results[i] in the sorted list is one
\* more than the number of elements that sort strictly before it or that have
\* an equal key and come earlier in results.
SortPosition(results, i) ==
    1 + Cardinality({ j \in 1..Len(results) :
                        \/ SortsBefore(results[j], results[i])
                        \/ ~SortsBefore(results[i], results[j]) /\ j < i })

SortResults(results) ==
    [ k \in 1..Len(results) |->
        results[CHOOSE i \in 1..Len(results) : SortPosition(results, i) = k] ]

\* results after the loop bodies of two consecutive ranges of lenders ran:
\* an exception in either leaves the matcher.
AppendMatches(first, rest) ==
    IF first.raised \/ rest.raised THEN [ raised |-> TRUE, results |-> <<>> ]
    ELSE [ raised |-> FALSE, results |-> first.results \o rest.results ]

\* The loop over lenders lo..hi of the enumeration, split in halves so that
\* long catalogs evaluate in logarithmic depth.
RECURSIVE MatchLoop(_, _, _, _)
MatchLoop(app, lenderList, lo, hi) ==
    IF lo > hi THEN [ raised |-> FALSE, results |-> <<>> ]
    ELSE IF lo = hi THEN MatchLender(app, lenderList[lo])
    ELSE AppendMatches(MatchLoop(app, lenderList, lo, (lo + hi) \div 2),
                       MatchLoop(app, lenderList, (lo + hi) \div 2 + 1, hi))

\* The final sort of the collected matches.
Ranked(out) ==
    IF out.raised THEN out
    ELSE [ raised |-> FALSE, results |-> SortResults(out.results) ]

MatchApplicationToLenders(app, lenderList) ==
    IF ~app.has_business \/ ~app.has_guarantor \/ ~app.has_equipment
    THEN [ raised |-> TRUE, results |-> <<>> ]
    ELSE Ranked(MatchLoop(app, lenderList, 1, Len(lenderList)))

---------------------------------------------------------------------------
(* Bounded inputs of the matcher *)

MaxRules == 2
MaxPrograms == 2

SeqsUpTo(S, n) == UNION { [1..k -> S] : k \in 0..n }

Rule(kind, criteria, weight, mandatory, active) ==
    [ rule_type |-> kind, criteria |-> criteria, weight |-> weight,
      is_mandatory |-> mandatory, active |-> active ]

Program(conditions, rate_metadata, min_fit_score, active, rules) ==
    [ eligibility_conditions |-> conditions, rate_metadata |-> rate_metadata,
      min_fit_score |-> min_fit_score, active |-> active, rules |-> rules ]

Lender(id, active, excluded_states, excluded_industries, min_loan, max_loan, programs) ==
    [ id |-> id, active |-> active, excluded_states |-> excluded_states,
      excluded_industries |-> excluded_industries, min_loan_amount |-> min_loan,
      max_loan_amount |-> max_loan, programs |-> programs ]

BaseApp ==
    [ found |-> TRUE, has_business |-> TRUE, has_guarantor |-> TRUE, has_equipment |-> TRUE,
      status |-> "Submitted", requested_amount |-> 50000, requested_term_months |-> 60,
      business  |-> [ state |-> "TX", industry |-> "Medical",
                      legal_structure |-> "LLC", annual_revenue |-> 300000 ],
      guarantor |-> [ fico_score |-> 700, paynet_score |-> 75,
                      is_homeowner |-> TRUE, is_us_citizen |-> TRUE ],
      equipment |-> [ year_manufactured |-> NoValue, condition |-> "New" ] ]

FicoRule(weight, mandatory) ==
    Rule("min_fico", [min_score |-> 680], weight, mandatory, TRUE)

\* "fico < 680"
FicoBelow680 == << "f", "i", "c", "o", " ", "<", " ", "6", "8", "0" >>

\* A row of base_rates; min_term and max_term are optional keys.
RateRow(min_amount, max_amount, rate, min_term, max_term) ==
    [ min_amount |-> min_amount, max_amount |-> max_amount, rate |-> rate,
      min_term |-> min_term, max_term |-> max_term ]

BaseRates == [ base_rates  |-> << RateRow(10000, 100000, 675, NoValue, NoValue) >>,
               adjustments |-> << [condition |-> FicoBelow680, delta |-> 100] >> ]

DefaultProgram == Program(EmptyDict, BaseRates, 0, TRUE, << FicoRule(100, FALSE) >>)

OpenLender(programs) == Lender(1, TRUE, <<>>, <<>>, NoValue, NoValue, programs)

\* Tier 1: every lender header against every amount, state and industry.
Tier1Lenders ==
    { Lender(1, a, xs, xi, lo, hi, << DefaultProgram >>) :
        a \in BOOLEAN, xs \in { <<>>, <<"CA">> }, xi \in { <<>>, <<"TRUCKING">> },
        lo \in { NoValue, 10000 }, hi \in { NoValue, 0, 100000 } }

Tier1Apps ==
    { [ BaseApp EXCEPT !.requested_amount = amt, !.business.state = st,
                       !.business.industry = ind ] :
        amt \in { 5000, 50000, 200000 }, st \in { "CA", "TX" },
        ind \in { "Trucking", "Medical" } }

\* Tier 2: programs over the eligibility conditions, one key at a time and combined.
Conditions ==
    { EmptyDict,
      [requires_paynet |-> TRUE], [requires_paynet |-> FALSE],
      [legal_structure |-> << "Corporation", "S-Corp" >>],
      [industry |-> << "MEDICAL" >>],
      [min_revenue |-> 250000], [min_revenue |-> Malformed],
      [homeowner_required |-> TRUE], [us_citizen_required |-> TRUE],
      [max_term_months |-> 60],
      [requires_paynet |-> TRUE, min_revenue |-> 250000] }

Tier2Programs ==
    { Program(c, EmptyDict, 0, TRUE, << FicoRule(100, FALSE) >>) : c \in Conditions }
    \cup { Program(EmptyDict, EmptyDict, 0, FALSE, << FicoRule(100, FALSE) >>) }

Tier2Apps ==
    { [ BaseApp EXCEPT !.guarantor.paynet_score = pn, !.business.annual_revenue = rev,
                       !.guarantor.is_homeowner = ho, !.guarantor.is_us_citizen = ci,
                       !.business.legal_structure = ls, !.business.industry = ind ] :
        pn \in { NoValue, 0, 75 }, rev \in { NoValue, 100000, 300000 },
        ho \in BOOLEAN, ci \in BOOLEAN, ls \in { "LLC", "Corporation" },
        ind \in { "Medical", "Trucking" } }

\* Tier 3: one program over every rule list drawn from the pool.
RulePool ==
    { FicoRule(w, m) : w \in { 0, 100, 200 }, m \in BOOLEAN }
    \cup { Rule("min_fico", EmptyDict, 100, m, TRUE) : m \in BOOLEAN }
    \cup { Rule("max_loan_amount", [max_amount |-> 100000], w, m, TRUE) :
             w \in { 0, 100 }, m \in BOOLEAN }
    \cup { Rule("homeowner_required", EmptyDict, 100, m, TRUE) : m \in BOOLEAN }
    \cup { Rule("min_fico", [min_score |-> 680], 100, TRUE, FALSE) }

Tier3Programs ==
    { Program(EmptyDict, BaseRates, mf, TRUE, rs) :
        mf \in { NoValue, 0, 6000, 10000 }, rs \in SeqsUpTo(RulePool, MaxRules) }

Tier3Apps ==
    { [ BaseApp EXCEPT !.guarantor.fico_score = f, !.requested_amount = amt ] :
        f \in { NoValue, 620, 630, 660, 700 }, amt \in { 50000, 200000 } }

\* Program selection: several programs of one lender, each with at most one rule.
SelectionRules ==
    { <<>>, << FicoRule(100, FALSE) >>, << FicoRule(100, TRUE) >>,
      << Rule("max_loan_amount", [max_amount |-> 100000], 100, FALSE, TRUE) >>,
      << Rule("min_fico", EmptyDict, 100, FALSE, TRUE) >> }

SelectionPrograms ==
    { Program(c, EmptyDict, mf, TRUE, rs) :
        c \in { EmptyDict, [requires_paynet |-> TRUE] }, mf \in { NoValue, 6000 },
        rs \in SelectionRules }

SelectionApps ==
    { [ BaseApp EXCEPT !.guarantor.fico_score = f, !.guarantor.paynet_score = pn ] :
        f \in { 620, 660, 700 }, pn \in { NoValue, 75 } }

\* Ranking: several lenders, told apart by the FICO floor of their one rule.
MaxLenders == 3

ScoreRule(min_score, mandatory) ==
    Rule("min_fico", [min_score |-> min_score], 100, mandatory, TRUE)

RankingLenders ==
    { Lender(0, TRUE, <<>>, <<>>, NoValue, NoValue,
             << Program(EmptyDict, EmptyDict, mf, TRUE, << ScoreRule(ms, m) >>) >>) :
        ms \in { 650, 680, 720 }, m \in BOOLEAN, mf \in { NoValue } }
    \cup { Lender(0, TRUE, <<>>, <<>>, NoValue, NoValue,
                  << Program(EmptyDict, EmptyDict, 10000, TRUE,
                             << ScoreRule(680, FALSE) >>) >>),
           Lender(0, FALSE, <<>>, <<>>, NoValue, NoValue, << DefaultProgram >>) }

\* Lender ids are the positions in the enumeration.
WithIds(lenderList) ==
    [ i \in 1..Len(lenderList) |-> [ lenderList[i] EXCEPT !.id = i ] ]

RankingApps ==
    { [ BaseApp EXCEPT !.guarantor.fico_score = f ] : f \in { 660, 700 } }

\* Rate tables: every list of rows from the pool, against amounts on and off
\* the bounds of the rows and terms inside and outside their term bounds.
MaxRows == 2

RowPool ==
    { RateRow(10000, 100000, 675, NoValue, NoValue),
      RateRow(10000, 100000, 700, 12, 36),
      RateRow(100001, 250000, 625, NoValue, 48),
      RateRow(NoValue, 100000, 650, NoValue, NoValue) }

RatePrograms ==
    { Program(EmptyDict, [ base_rates |-> rows, adjustments |-> <<>> ], NoValue, TRUE,
              << FicoRule(100, FALSE) >>) : rows \in SeqsUpTo(RowPool, MaxRows) }

RateApps ==
    { [ BaseApp EXCEPT !.requested_amount = amt, !.requested_term_months = term ] :
        amt \in { 5000, 10000, 50000, 100000, 200000 }, term \in { 24, 60 } }

\* Rate adjustments: every list of adjustments from the pool, against present
\* and absent FICO scores and equipment years.
MaxAdjustments == 2

ConditionPool ==
    { FicoBelow680,
      << "F", "I", "C", "O", " ", ">", "=", " ", "6", "8", "0" >>,
      EquipmentAgeName \o << " ", ">", " ", "1", "5" >>,
      EquipmentAgeName \o << "<", "=", "5" >>,
      FicoName \o << "_", "s", "c", "o", "r", "e", " ", "<", " ", "6", "8", "0" >>,
      FicoName \o << " ", "<", " ", "a", "b", "c" >>,
      EquipmentAgeName \o << " ", "=", ">", " ", "1", "0" >>,
      <<>> }

AdjustmentPool ==
    { [ condition |-> c, delta |-> d ] : c \in ConditionPool, d \in { 100, -800 } }

AdjustmentPrograms ==
    { Program(EmptyDict,
              [ base_rates  |-> << RateRow(10000, 100000, 675, NoValue, NoValue) >>,
                adjustments |-> adj ],
              NoValue, TRUE, << FicoRule(100, FALSE) >>) :
        adj \in SeqsUpTo(AdjustmentPool, MaxAdjustments) }

AdjustmentApps ==
    { [ BaseApp EXCEPT !.guarantor.fico_score = f, !.equipment.year_manufactured = y,
                       !.equipment.condition = "Used" ] :
        f \in { NoValue, 660, 700 }, y \in { NoValue, 2005, 2022 } }

\* An application whose nested entities were not loaded.
\* Equipment age: one equipment_age rule and adjustments on equipment_age,
\* against equipment with and without a year of manufacture.
EquipmentRules ==
    { Rule("equipment_age", [max_age_years |-> m], 100, mand, TRUE) :
        m \in { 0, 5 }, mand \in BOOLEAN }
    \cup { Rule("equipment_age", EmptyDict, 100, FALSE, TRUE) }

EquipmentAdjustments ==
    { [ condition |-> EquipmentAgeName \o << " ", "<", "=", " ", "5" >>, delta |-> 100 ],
      [ condition |-> EquipmentAgeName \o << " ", ">", " ", "1", "5" >>, delta |-> 200 ] }

EquipmentPrograms ==
    { Program(EmptyDict,
              [ base_rates  |-> << RateRow(10000, 100000, 675, NoValue, NoValue) >>,
                adjustments |-> adj ],
              NoValue, TRUE, << r >>) :
        adj \in SeqsUpTo(EquipmentAdjustments, MaxAdjustments), r \in EquipmentRules }

EquipmentApps ==
    { [ BaseApp EXCEPT !.equipment.year_manufactured = y, !.equipment.condition = c ] :
        y \in { NoValue, 2005, 2022 }, c \in { "New", "Used" } }

IncompleteApps ==
    { [ BaseApp EXCEPT !.has_business = FALSE ],
      [ BaseApp EXCEPT !.has_guarantor = FALSE ],
      [ BaseApp EXCEPT !.has_equipment = FALSE ] }

---------------------------------------------------------------------------
(* The matcher called directly on a bounded input *)

NotCalled == [ raised |-> FALSE, results |-> <<>> ]

NoMessage == "null"

NoExc == [ kind |-> "none", message |-> NoMessage ]

\* UnderwritingRun, its MatchResult and RuleEvaluation rows, and the status of
\* the application row; status "absent" is no run row.
NoRows(app_status) ==
    [ status |-> "absent", started_at |-> FALSE, completed_at |-> FALSE,
      error_message |-> NoMessage, summary |-> NoValue,
      match_results |-> <<>>, rule_evaluations |-> <<>>,
      app_status |-> app_status ]

\* The orchestrator before run_underwriting is called.
Idle ==
    /\ pc = "idle"
    /\ pending = NoRows(application.status)
    /\ committed = NoRows(application.status)
    /\ status_writes = <<>>
    /\ caught = NoExc
    /\ raised = NoExc
    /\ healthy = TRUE
    /\ loaded = <<>>

MatchInit ==
    /\ \/ \E a \in Tier1Apps, l \in Tier1Lenders :
             application = a /\ lenders = << l >>
       \/ \E a \in Tier2Apps, ps \in SeqsUpTo(Tier2Programs, MaxPrograms) :
             application = a /\ lenders = << OpenLender(ps) >>
       \/ \E a \in Tier3Apps, p \in Tier3Programs :
             application = a /\ lenders = << OpenLender(<< p >>) >>
       \/ \E a \in SelectionApps, ps \in SeqsUpTo(SelectionPrograms, MaxPrograms) :
             application = a /\ lenders = << OpenLender(ps) >>
       \/ \E a \in IncompleteApps :
             application = a /\ lenders = << OpenLender(<< DefaultProgram >>) >>
       \/ \E a \in RankingApps, ls \in SeqsUpTo(RankingLenders, MaxLenders) :
             application = a /\ lenders = WithIds(ls)
       \/ \E a \in RateApps, p \in RatePrograms :
             application = a /\ lenders = << OpenLender(<< p >>) >>
       \/ \E a \in AdjustmentApps, p \in AdjustmentPrograms :
             application = a /\ lenders = << OpenLender(<< p >>) >>
       \/ \E a \in EquipmentApps, p \in EquipmentPrograms :
             application = a /\ lenders = << OpenLender(<< p >>) >>
    /\ mpc = "ready"
    /\ match_out = NotCalled
    /\ Idle

\* Variant of the outcomes in which the final sort may also leave equal keys
\* in the opposite order.
ExecutionsWithUnstableSort(app, lenderList) ==
    LET out == MatchApplicationToLenders(app, lenderList)
    IN  { out,
          [ out EXCEPT !.results =
              [ k \in 1..Len(out.results) |->
                  out.results[CHOOSE i \in 1..Len(out.results) :
                                SortPositionUnstable(out.results, i) = k] ] ] }

\* The outcomes one execution of match_application_to_lenders can have on a
\* snapshot at a fixed date: the method reads no clock but the year, draws no
\* random number, iterates lists only, keeps the first of equal fit scores and
\* sorts with the stable list.sort, so there is exactly one.
Executions(app, lenderList) == { MatchApplicationToLenders(app, lenderList) }

Match ==
    /\ mpc = "ready"
    /\ \E out \in Executions(application, lenders) : match_out' = out
    /\ mpc' = "done"
    /\ UNCHANGED <<application, lenders>>
    /\ UNCHANGED ovars

\* A second execution of the matcher on the same snapshot.
Rematch ==
    /\ mpc = "done"
    /\ \E out \in Executions(application, lenders) : match_out' = out
    /\ mpc' = "repeated"
    /\ UNCHANGED <<application, lenders>>
    /\ UNCHANGED ovars

MatchNext == Match \/ Rematch

MatchSpec == MatchInit /\ [][MatchNext]_vars

---------------------------------------------------------------------------
(* The run store (repositories) *)

LenderLimit == 100

\* Active lenders in name order, at most limit of them.
GetActiveLendersWithPolicies(table) ==
    LET active == SelectSeq(table, LAMBDA l : l.active)
    IN  SubSeq(active, 1, Min(Len(active), LenderLimit))

\* create_underwriting_run: a Pending run with zeroed counters.
CreateUnderwritingRun(rows) ==
    [ rows EXCEPT !.status = "Pending", !.started_at = FALSE, !.completed_at = FALSE,
                  !.summary = [ total_lenders_evaluated |-> 0,
                                total_programs_evaluated |-> 0,
                                matched_count |-> 0, rejected_count |-> 0 ] ]

\* update_run_status: nothing when the run is not found; the optional fields
\* are assigned only when truthy.
UpdateRunStatus(rows, status, started_at, completed_at, error_message) ==
    IF rows.status = "absent" THEN rows
    ELSE [ rows EXCEPT !.status = status,
                       !.started_at = IF started_at THEN TRUE ELSE @,
                       !.completed_at = IF completed_at THEN TRUE ELSE @,
                       !.error_message =
                           IF error_message # NoMessage /\ error_message # ""
                           THEN error_message ELSE @ ]

\* The status values written so far, after update_run_status ran on rows.
StatusWritten(rows, writes, status) ==
    IF rows.status = "absent" THEN writes ELSE Append(writes, status)

UpdateRunSummary(rows, lenders_evaluated, programs_evaluated, matched, rejected) ==
    IF rows.status = "absent" THEN rows
    ELSE [ rows EXCEPT !.summary = [ total_lenders_evaluated |-> lenders_evaluated,
                                     total_programs_evaluated |-> programs_evaluated,
                                     matched_count |-> matched,
                                     rejected_count |-> rejected ] ]

---------------------------------------------------------------------------
(* The underwriting orchestrator *)

RulesPassed(evals) == Cardinality({ i \in 1..Len(evals) : evals[i].result.passed })

MatchedCount(results) == Cardinality({ i \in 1..Len(results) : results[i].is_eligible })

\* The MatchResult entity built for one match of the matcher.
DbMatch(m) ==
    [ lender |-> m.lender, program |-> m.program, is_eligible |-> m.is_eligible,
      fit_score |-> m.fit_score, rejection_reason |-> m.rejection_reason,
      rejection_tier |-> m.rejection_tier, estimated_rate |-> m.estimated_rate,
      approval_probability |-> m.approval_probability,
      total_rules_evaluated |-> Len(m.rule_evaluations),
      rules_passed |-> RulesPassed(m.rule_evaluations),
      rules_failed |-> Len(m.rule_evaluations)
                         - RulesPassed(m.rule_evaluations),
      mandatory_rules_passed |->
          \A j \in 1..Len(m.rule_evaluations) :
             m.rule_evaluations[j].result.is_mandatory
               => m.rule_evaluations[j].result.passed ]

DbMatches(results) == [ i \in 1..Len(results) |-> DbMatch(results[i]) ]

\* Variant of the entities of one match that keeps the passed evaluations only.
RuleEvaluationsOfPassed(results, i) ==
    SelectSeq([ j \in 1..Len(results[i].rule_evaluations) |->
                  [ match |-> i,
                    rule_type |-> results[i].rule_evaluations[j].rule.rule_type,
                    passed |-> results[i].rule_evaluations[j].result.passed,
                    score |-> results[i].rule_evaluations[j].result.score,
                    weight |-> results[i].rule_evaluations[j].result.weight,
                    is_mandatory |-> results[i].rule_evaluations[j].result.is_mandatory ] ],
              LAMBDA e : e.passed)

\* The RuleEvaluation entities of one match.
RuleEvaluations(results, i) ==
    [ j \in 1..Len(results[i].rule_evaluations) |->
        [ match |-> i,
          rule_type |-> results[i].rule_evaluations[j].rule.rule_type,
          passed |-> results[i].rule_evaluations[j].result.passed,
          score |-> results[i].rule_evaluations[j].result.score,
          weight |-> results[i].rule_evaluations[j].result.weight,
          is_mandatory |-> results[i].rule_evaluations[j].result.is_mandatory ] ]

\* The RuleEvaluation entities of matches lo..hi, in order.
RECURSIVE AllRuleEvaluations(_, _, _)
AllRuleEvaluations(results, lo, hi) ==
    IF lo > hi THEN <<>>
    ELSE IF lo = hi THEN RuleEvaluations(results, lo)
    ELSE AllRuleEvaluations(results, lo, (lo + hi) \div 2)
         \o AllRuleEvaluations(results, (lo + hi) \div 2 + 1, hi)

\* sum(len(lender.programs)) over lenders lo..hi.
RECURSIVE TotalPrograms(_, _, _)
TotalPrograms(lenderList, lo, hi) ==
    IF lo > hi THEN 0
    ELSE IF lo = hi THEN Len(lenderList[lo].programs)
    ELSE TotalPrograms(lenderList, lo, (lo + hi) \div 2)
         + TotalPrograms(lenderList, (lo + hi) \div 2 + 1, hi)

\* Exceptions, by kind and str(e).
DatabaseFaults ==
    { [ kind |-> "DBAPIError", message |-> "statement failed" ],
      [ kind |-> "TimeoutError", message |-> "" ] }

\* The foreign-key violation of an INSERT into underwriting_runs.
IntegrityError == [ kind |-> "IntegrityError", message |-> "foreign key violation" ]

NotFoundError == [ kind |-> "ValueError", message |-> "application not found" ]

RelationError == [ kind |-> "ValueError", message |-> "relationship not loaded" ]

MatcherError == [ kind |-> "Exception", message |-> "matcher raised" ]

SessionError == [ kind |-> "PendingRollbackError", message |-> "rollback required" ]

\* The largest value of a Numeric(5, 2) column, in hundredths.
NumericMax == 99999

\* The error of an INSERT whose value exceeds the precision of its column.
NumericOverflow == [ kind |-> "DBAPIError", message |-> "numeric field overflow" ]

\* score and weight of every row fit rule_evaluations.score and .weight.
FitsColumns(rule_evaluations) ==
    \A j \in 1..Len(rule_evaluations) :
       /\ rule_evaluations[j].score <= NumericMax
       /\ rule_evaluations[j].weight <= NumericMax

\* An exception raised inside the try block reaches the except block.  A
\* statement that fails inside the open transaction aborts it: until a
\* rollback, which run_underwriting never issues, the session raises on use.
Fail(e, aborted) ==
    /\ pc' = "handler"
    /\ caught' = e
    /\ healthy' = ~aborted

\* line 73: the run is created before the try block.  The INSERT is flushed
\* at once, and underwriting_runs.application_id references loan_applications:
\* for an application id with no row the flush raises.
CreateRun ==
    /\ pc = "idle"
    /\ \/ /\ application.found
          /\ pending' = CreateUnderwritingRun(pending)
          /\ status_writes' = << "Pending" >>
          /\ pc' = "created"
          /\ UNCHANGED <<raised, healthy>>
       \/ /\ ~application.found
          /\ raised' = IntegrityError
          /\ pc' = "raised"
          /\ healthy' = FALSE
          /\ UNCHANGED <<pending, status_writes>>
       \/ \E e \in DatabaseFaults :
            /\ raised' = e
            /\ pc' = "raised"
            /\ healthy' = FALSE
            /\ UNCHANGED <<pending, status_writes>>
    /\ UNCHANGED <<committed, caught, loaded>>
    /\ UNCHANGED mvars

\* lines 80-84
MarkInProgress ==
    /\ pc = "created"
    /\ \/ /\ pending' = UpdateRunStatus(pending, "InProgress", TRUE, FALSE, NoMessage)
          /\ status_writes' = StatusWritten(pending, status_writes, "InProgress")
          /\ pc' = "marked"
          /\ UNCHANGED <<caught, healthy>>
       \/ /\ \E e \in DatabaseFaults : Fail(e, TRUE)
          /\ UNCHANGED <<pending, status_writes>>
    /\ UNCHANGED <<committed, raised, loaded>>
    /\ UNCHANGED mvars

\* line 85.  A failed commit commits nothing and leaves the session unusable.
CommitInProgress ==
    /\ pc = "marked"
    /\ \/ /\ committed' = pending
          /\ pc' = "started"
          /\ UNCHANGED <<pending, caught, healthy>>
       \/ /\ \E e \in DatabaseFaults : Fail(e, TRUE)
          /\ UNCHANGED <<pending, committed>>
    /\ UNCHANGED <<status_writes, raised, loaded>>
    /\ UNCHANGED mvars

\* lines 88-101.  The first statement after a commit may fail before a
\* transaction is open, and then the session stays usable.  The application
\* row exists whenever the run could be created, so the not-found branch is
\* taken only if the row were to vanish in between, which no step here does.
LoadApplication ==
    /\ pc = "started"
    /\ \/ \E e \in DatabaseFaults, aborted \in BOOLEAN : Fail(e, aborted)
       \/ ~application.found /\ Fail(NotFoundError, FALSE)
       \/ /\ application.found
          /\ ~application.has_business \/ ~application.has_guarantor
               \/ ~application.has_equipment
          /\ Fail(RelationError, FALSE)
       \/ /\ application.found
          /\ application.has_business /\ application.has_guarantor
          /\ application.has_equipment
          /\ pc' = "app_loaded"
          /\ UNCHANGED <<caught, healthy>>
    /\ UNCHANGED <<pending, committed, status_writes, raised, loaded>>
    /\ UNCHANGED mvars

\* lines 104-106
LoadLenders ==
    /\ pc = "app_loaded"
    /\ \/ /\ loaded' = GetActiveLendersWithPolicies(lenders)
          /\ pc' = IF loaded' = <<>> THEN "no_lenders" ELSE "lenders_loaded"
          /\ UNCHANGED <<caught, healthy>>
       \/ /\ \E e \in DatabaseFaults : Fail(e, TRUE)
          /\ UNCHANGED loaded
    /\ UNCHANGED <<pending, committed, status_writes, raised>>
    /\ UNCHANGED mvars


\* lines 109-113: no active lender, the run completes with empty results.
CompleteEmptyRun ==
    /\ pc = "no_lenders"
    /\ \/ /\ pending' = UpdateRunStatus(pending, "Completed", FALSE, TRUE, NoMessage)
          /\ status_writes' = StatusWritten(pending, status_writes, "Completed")
          /\ pc' = "empty_completed"
          /\ UNCHANGED <<caught, healthy>>
       \/ /\ \E e \in DatabaseFaults : Fail(e, TRUE)
          /\ UNCHANGED <<pending, status_writes>>
    /\ UNCHANGED <<committed, raised, loaded>>
    /\ UNCHANGED mvars

\* lines 114-120
SummarizeEmptyRun ==
    /\ pc = "empty_completed"
    /\ \/ /\ pending' = UpdateRunSummary(pending, 0, 0, 0, 0)
          /\ pc' = "empty_summarized"
          /\ UNCHANGED <<caught, healthy>>
       \/ /\ \E e \in DatabaseFaults : Fail(e, TRUE)
          /\ UNCHANGED pending
    /\ UNCHANGED <<committed, status_writes, raised, loaded>>
    /\ UNCHANGED mvars

\* line 121
CommitEmptyRun ==
    /\ pc = "empty_summarized"
    /\ \/ /\ committed' = pending
          /\ pc' = "empty_committed"
          /\ UNCHANGED <<pending, caught, healthy>>
       \/ /\ \E e \in DatabaseFaults : Fail(e, TRUE)
          /\ UNCHANGED <<pending, committed>>
    /\ UNCHANGED <<status_writes, raised, loaded>>
    /\ UNCHANGED mvars

\* line 122: the read that produces the return value is inside the try block.
ReturnEmptyRun ==
    /\ pc = "empty_committed"
    /\ \/ /\ pc' = "returned"
          /\ UNCHANGED <<caught, healthy>>
       \/ \E e \in DatabaseFaults, aborted \in BOOLEAN : Fail(e, aborted)
    /\ UNCHANGED <<pending, committed, status_writes, raised, loaded>>
    /\ UNCHANGED mvars

\* lines 129-132: the matcher runs on the loaded application and lenders.
RunMatcher ==
    /\ pc = "lenders_loaded"
    /\ match_out' = MatchApplicationToLenders(application, loaded)
    /\ mpc' = "done"
    /\ IF match_out'.raised
       THEN Fail(MatcherError, FALSE)
       ELSE pc' = "matched" /\ UNCHANGED <<caught, healthy>>
    /\ UNCHANGED <<pending, committed, status_writes, raised, loaded>>
    /\ UNCHANGED <<application, lenders>>

\* lines 207-245 of _persist_match_results: the MatchResult rows are flushed.
PersistMatchResults ==
    /\ pc = "matched"
    /\ \/ /\ pending' = [ pending EXCEPT !.match_results = DbMatches(match_out.results) ]
          /\ pc' = "results_persisted"
          /\ UNCHANGED <<caught, healthy>>
       \/ /\ \E e \in DatabaseFaults : Fail(e, TRUE)
          /\ UNCHANGED pending
    /\ UNCHANGED <<committed, status_writes, raised, loaded>>
    /\ UNCHANGED mvars

\* lines 247-268: the RuleEvaluation rows are flushed when there are any; the
\* database rejects a row whose score does not fit its column.
PersistRuleEvaluations ==
    /\ pc = "results_persisted"
    /\ LET all_rule_evaluations == AllRuleEvaluations(match_out.results, 1, Len(match_out.results))
       IN  \/ /\ FitsColumns(all_rule_evaluations)
              /\ pending' = [ pending EXCEPT !.rule_evaluations = all_rule_evaluations ]
              /\ pc' = "persisted"
              /\ UNCHANGED <<caught, healthy>>
           \/ /\ all_rule_evaluations # <<>>
              /\ \E e \in DatabaseFaults : Fail(e, TRUE)
              /\ UNCHANGED pending
           \/ /\ ~FitsColumns(all_rule_evaluations)
              /\ Fail(NumericOverflow, TRUE)
              /\ UNCHANGED pending
    /\ UNCHANGED <<committed, status_writes, raised, loaded>>
    /\ UNCHANGED mvars

\* lines 138-151
UpdateSummary ==
    /\ pc = "persisted"
    /\ \/ /\ LET matched_count ==
                   MatchedCount(match_out.results)
             IN  pending' = UpdateRunSummary(pending, Len(loaded),
                                             TotalPrograms(loaded, 1, Len(loaded)), matched_count,
                                             Len(match_out.results) - matched_count)
          /\ pc' = "summarized"
          /\ UNCHANGED <<caught, healthy>>
       \/ /\ \E e \in DatabaseFaults : Fail(e, TRUE)
          /\ UNCHANGED pending
    /\ UNCHANGED <<committed, status_writes, raised, loaded>>
    /\ UNCHANGED mvars

\* lines 154-158
CompleteRun ==
    /\ pc = "summarized"
    /\ \/ /\ pending' = UpdateRunStatus(pending, "Completed", FALSE, TRUE, NoMessage)
          /\ status_writes' = StatusWritten(pending, status_writes, "Completed")
          /\ pc' = "completed"
          /\ UNCHANGED <<caught, healthy>>
       \/ /\ \E e \in DatabaseFaults : Fail(e, TRUE)
          /\ UNCHANGED <<pending, status_writes>>
    /\ UNCHANGED <<committed, raised, loaded>>
    /\ UNCHANGED mvars

\* lines 161-163: a Submitted application moves to InUnderwriting.
PromoteApplication ==
    /\ pc = "completed"
    /\ \/ /\ pending.app_status = "Submitted"
          /\ pending' = [ pending EXCEPT !.app_status = "InUnderwriting" ]
          /\ pc' = "promoted"
          /\ UNCHANGED <<caught, healthy>>
       \/ /\ pending.app_status = "Submitted"
          /\ \E e \in DatabaseFaults : Fail(e, TRUE)
          /\ UNCHANGED pending
       \/ /\ pending.app_status # "Submitted"
          /\ pc' = "promoted"
          /\ UNCHANGED <<pending, caught, healthy>>
    /\ UNCHANGED <<committed, status_writes, raised, loaded>>
    /\ UNCHANGED mvars

\* line 166
CommitRun ==
    /\ pc = "promoted"
    /\ \/ /\ committed' = pending
          /\ pc' = "run_committed"
          /\ UNCHANGED <<pending, caught, healthy>>
       \/ /\ \E e \in DatabaseFaults : Fail(e, TRUE)
          /\ UNCHANGED <<pending, committed>>
    /\ UNCHANGED <<status_writes, raised, loaded>>
    /\ UNCHANGED mvars

\* line 174: the read that produces the return value is inside the try block.
ReturnRun ==
    /\ pc = "run_committed"
    /\ \/ /\ pc' = "returned"
          /\ UNCHANGED <<caught, healthy>>
       \/ \E e \in DatabaseFaults, aborted \in BOOLEAN : Fail(e, aborted)
    /\ UNCHANGED <<pending, committed, status_writes, raised, loaded>>
    /\ UNCHANGED mvars

\* lines 184-189 of the except block: the run is marked Failed with str(e).
\* On a session whose transaction was aborted the statement raises, and so
\* may it on a usable one; that exception leaves run_underwriting.
MarkFailed ==
    /\ pc = "handler"
    /\ \/ /\ healthy
          /\ pending' = UpdateRunStatus(pending, "Failed", FALSE, TRUE, caught.message)
          /\ status_writes' = StatusWritten(pending, status_writes, "Failed")
          /\ pc' = "failed_marked"
          /\ UNCHANGED <<raised, healthy>>
       \/ /\ healthy
          /\ \E e \in DatabaseFaults : raised' = e
          /\ pc' = "raised"
          /\ healthy' = FALSE
          /\ UNCHANGED <<pending, status_writes>>
       \/ /\ ~healthy
          /\ raised' = SessionError
          /\ pc' = "raised"
          /\ UNCHANGED <<pending, status_writes, healthy>>
    /\ UNCHANGED <<committed, caught, loaded>>
    /\ UNCHANGED mvars

\* lines 190-193: commit, then re-raise the caught exception.
CommitFailed ==
    /\ pc = "failed_marked"
    /\ \/ /\ committed' = pending
          /\ raised' = caught
          /\ UNCHANGED <<pending, healthy>>
       \/ /\ \E e \in DatabaseFaults : raised' = e
          /\ healthy' = FALSE
          /\ UNCHANGED <<pending, committed>>
    /\ pc' = "raised"
    /\ UNCHANGED <<status_writes, caught, loaded>>
    /\ UNCHANGED mvars

\* asyncio.CancelledError, thrown into the coroutine at the await it is
\* suspended on.
CancelledError == [ kind |-> "CancelledError", message |-> "" ]

\* The positions whose next step is an awaited call.
CancelPoints ==
    { "idle", "created", "marked", "started", "app_loaded", "no_lenders",
      "empty_completed", "empty_summarized", "empty_committed", "matched",
      "results_persisted", "persisted", "summarized", "completed", "promoted",
      "run_committed", "handler", "failed_marked" }

\* The task running run_underwriting is cancelled.  CancelledError is a
\* BaseException: neither `except Exception` of run_underwriting nor that of
\* get_db catches it, and closing the session discards the open transaction.
Cancel ==
    /\ pc \in CancelPoints
    /\ raised' = CancelledError
    /\ pc' = "raised"
    /\ pending' = committed
    /\ UNCHANGED <<committed, status_writes, caught, healthy, loaded>>
    /\ UNCHANGED mvars

\* Another session sets the committed run to Cancelled.  The orchestrator's
\* session keeps the run it loaded (expire_on_commit=False) and does not see
\* the change.
ExternalCancel ==
    /\ committed.status \in { "Pending", "InProgress" }
    /\ committed' = [ committed EXCEPT !.status = "Cancelled", !.completed_at = TRUE ]
    /\ UNCHANGED <<pc, pending, status_writes, caught, raised, healthy, loaded>>
    /\ UNCHANGED mvars

\* Catalogs and applications of the orchestrated runs.
StrictLender ==
    Lender(1, TRUE, <<>>, <<>>, NoValue, NoValue,
           << Program(EmptyDict, BaseRates, 6000, TRUE, << FicoRule(100, TRUE) >>) >>)

ExcludingLender ==
    Lender(2, TRUE, << "TX" >>, <<>>, NoValue, NoValue, << DefaultProgram >>)

InactiveLender ==
    Lender(3, FALSE, <<>>, <<>>, NoValue, NoValue, << DefaultProgram >>)

MalformedLender ==
    Lender(4, TRUE, <<>>, <<>>, NoValue, NoValue,
           << Program([min_revenue |-> Malformed], BaseRates, 0, TRUE, <<>>) >>)

BareLender ==
    Lender(5, TRUE, <<>>, <<>>, NoValue, NoValue,
           << Program(EmptyDict, EmptyDict, NoValue, TRUE, <<>>) >>)

\* A lender whose rule has the weight 10.00.
HeavyLender ==
    Lender(6, TRUE, <<>>, <<>>, NoValue, NoValue,
           << Program(EmptyDict, EmptyDict, NoValue, TRUE, << FicoRule(1000, FALSE) >>) >>)

\* A catalog with one active lender more than the default page of
\* get_active_lenders_with_policies holds.
CrowdedCatalog == [ i \in 1..(LenderLimit + 1) |-> [ BareLender EXCEPT !.id = i ] ]

RunCatalogs ==
    { <<>>, << InactiveLender >>, << OpenLender(<< DefaultProgram >>) >>,
      << StrictLender, ExcludingLender >>, << ExcludingLender, InactiveLender >>,
      << BareLender >>, << MalformedLender >>, << HeavyLender >>, CrowdedCatalog }

RunApps ==
    { BaseApp,
      [ BaseApp EXCEPT !.found = FALSE ],
      [ BaseApp EXCEPT !.has_guarantor = FALSE ],
      [ BaseApp EXCEPT !.status = "Draft" ],
      [ BaseApp EXCEPT !.guarantor.fico_score = 620 ] }

Init ==
    /\ \E a \in RunApps, table \in RunCatalogs : application = a /\ lenders = table
    /\ mpc = "ready"
    /\ match_out = NotCalled
    /\ Idle

Next ==
    \/ CreateRun
    \/ MarkInProgress
    \/ CommitInProgress
    \/ LoadApplication
    \/ LoadLenders
    \/ CompleteEmptyRun
    \/ SummarizeEmptyRun
    \/ CommitEmptyRun
    \/ ReturnEmptyRun
    \/ RunMatcher
    \/ PersistMatchResults
    \/ PersistRuleEvaluations
    \/ UpdateSummary
    \/ CompleteRun
    \/ PromoteApplication
    \/ CommitRun
    \/ ReturnRun
    \/ MarkFailed
    \/ CommitFailed
    \/ Cancel
    \/ ExternalCancel

Spec == Init /\ [][Next]_vars

---------------------------------------------------------------------------
(* Properties of the orchestrator *)

IsPrefix(s, t) == Len(s) <= Len(t) /\ \A i \in 1..Len(s) : s[i] = t[i]

\* C1: whichever step succeeds or raises, the status values written to a run
\* form a prefix of Pending, InProgress, Completed, or of Pending, InProgress,
\* Failed, or of Pending, Cancelled.
C1_StatusSequence ==
    \/ IsPrefix(status_writes, << "Pending", "InProgress", "Completed" >>)
    \/ IsPrefix(status_writes, << "Pending", "InProgress", "Failed" >>)
    \/ IsPrefix(status_writes, << "Pending", "Cancelled" >>)

\* C2: when a step after the creation of the run raised, run_underwriting
\* leaves the run Failed, with error_message set and completed_at stamped, and
\* re-raises the exception that step raised.
C2_FailureRecorded ==
    ( pc = "raised" /\ caught # NoExc ) =>
        /\ committed.status = "Failed"
        /\ committed.error_message # NoMessage
        /\ committed.completed_at
        /\ raised = caught

\* C3: in every committed state a Failed run owns no match results and no
\* rule evaluations.
C3_FailedRunOwnsNothing ==
    committed.status = "Failed" =>
        /\ committed.match_results = <<>>
        /\ committed.rule_evaluations = <<>>

\* C12: a run that ends Completed contains exactly one match result for every
\* lender that was active in the catalog when the run loaded it, whatever the
\* number of active lenders, and no match result for any other lender.
C12_OneResultPerActiveLender ==
    committed.status = "Completed" =>
        /\ \A l \in 1..Len(lenders) :
             lenders[l].active =>
               Cardinality({ k \in 1..Len(committed.match_results) :
                               committed.match_results[k].lender = lenders[l].id }) = 1
        /\ \A k \in 1..Len(committed.match_results) :
             \E l \in 1..Len(lenders) :
               /\ lenders[l].active
               /\ lenders[l].id = committed.match_results[k].lender

\* C13: once the run is committed Completed, also against a catalog with no
\* active lender, an application that was Submitted before the run is
\* InUnderwriting and an application in any other status keeps its status.
C13_ApplicationPromoted ==
    committed.status = "Completed" =>
        committed.app_status = IF application.status = "Submitted"
                               THEN "InUnderwriting"
                               ELSE application.status

\* C14: run_underwriting called with an application id that has no row
\* surfaces a not-found error (unless the database itself failed) and never
\* moves a run to InProgress or to Failed.
C14_NotFoundSurfaced ==
    ( ~application.found /\ pc = "raised" /\ raised \notin DatabaseFaults ) =>
        /\ raised = NotFoundError
        /\ \A i \in 1..Len(status_writes) :
             status_writes[i] \notin { "InProgress", "Failed" }

\* C15: an error raised while the matcher processes one program or one lender
\* never aborts the run: no exception of the matcher reaches the except
\* block, and every loaded lender has its match in what the matcher returned.
C15_MatcherErrorsContained ==
    /\ caught # MatcherError
    /\ mpc = "done" =>
         /\ ~match_out.raised
         /\ \A l \in 1..Len(loaded) :
              \E k \in 1..Len(match_out.results) :
                match_out.results[k].lender = loaded[l].id

\* C17: when a cancellation reached run_underwriting at an awaited call after
\* the run was committed, the run is left Cancelled with completed_at stamped,
\* not Pending or InProgress.
C17_CancellationRecorded ==
    ( raised = CancelledError /\ committed.status # "absent" ) =>
        /\ committed.status = "Cancelled"
        /\ committed.completed_at

\* C18: once a run is Cancelled, no later step changes its status.
C18_CancelledIsTerminal ==
    [][ committed.status = "Cancelled" => committed'.status = "Cancelled" ]_vars

\* The matches this execution produces: those of the application against the
\* active lenders of the catalog.
Produced == MatchApplicationToLenders(application, GetActiveLendersWithPolicies(lenders))

\* C19: no committed state contains the run of an execution without the match
\* results and rule evaluations that execution produces.
C19_CreatedTogether ==
    ( committed.status # "absent" /\ ~Produced.raised ) =>
        /\ committed.match_results = DbMatches(Produced.results)
        /\ committed.rule_evaluations
             = AllRuleEvaluations(Produced.results, 1, Len(Produced.results))

---------------------------------------------------------------------------
(* Properties of the matcher and the rule engine *)

Returned == mpc = "done" /\ ~match_out.raised

Results == match_out.results

ResultIndices == 1..Len(Results)

LenderOf(r) == CHOOSE l \in { lenders[i] : i \in 1..Len(lenders) } : l.id = r.lender

ProgramOf(r) == LenderOf(r).programs[r.program]

RECURSIVE SumScores(_, _)
SumScores(evals, i) ==
    IF i > Len(evals) THEN 0 ELSE evals[i].result.score + SumScores(evals, i + 1)

RECURSIVE SumWeights(_, _)
SumWeights(evals, i) ==
    IF i > Len(evals) THEN 0 ELSE evals[i].result.weight + SumWeights(evals, i + 1)

MandatoryAllPassed(evals) ==
    \A j \in 1..Len(evals) : evals[j].result.is_mandatory => evals[j].result.passed

MeetsFloor(fit_score, min_fit_score) ==
    min_fit_score = NoValue \/ fit_score >= min_fit_score

\* C4: the retained program's evaluation is eligible if and only if every
\* evaluated rule result with mandatory=true passed and the fit score reaches
\* the program's min_fit_score (an absent or zero floor never binding); so a
\* failed mandatory rule always makes the match ineligible.
C4_EligibilityGate ==
    Returned =>
      \A i \in ResultIndices :
        Results[i].program # NoValue =>
          /\ Results[i].is_eligible
               <=> ( MandatoryAllPassed(Results[i].rule_evaluations)
                     /\ MeetsFloor(Results[i].fit_score,
                                   ProgramOf(Results[i]).min_fit_score) )
          /\ ( ~MandatoryAllPassed(Results[i].rule_evaluations)
               => ~Results[i].is_eligible )

C4_Witness ==
    /\ Returned
    /\ \E i \in ResultIndices :
         /\ Results[i].program # NoValue
         /\ MandatoryAllPassed(Results[i].rule_evaluations)
         /\ Len(Results[i].rule_evaluations) > 0
         /\ ~Results[i].is_eligible
         /\ Results[i].fit_score < ProgramOf(Results[i]).min_fit_score

\* C5: every match result, rejected at any tier or eligible, has a fit score
\* between 0 and 100 (the catalogs of the model have rule weights >= 0).
C5_FitScoreBounds ==
    Returned =>
      \A i \in ResultIndices :
        0 <= Results[i].fit_score /\ Results[i].fit_score <= 10000

C5_Witness ==
    /\ Returned
    /\ \E i \in ResultIndices :
         /\ Results[i].rejection_tier = 3
         /\ 0 < Results[i].fit_score /\ Results[i].fit_score < 10000
    /\ \E l \in 1..Len(lenders) : \E p \in 1..Len(lenders[l].programs) :
         \E k \in 1..Len(lenders[l].programs[p].rules) :
           lenders[l].programs[p].rules[k].weight = 0

Clamp(x, lo, hi) == Max(lo, Min(hi, x))

EvaluatedRules(program) ==
    SelectSeq(program.rules, LAMBDA r : r.active /\ r.rule_type \in Registered)

\* C6: the retained program's fit score is the sum of the scores over the sum
\* of the weights of its evaluated active rules, quantized to two decimals and
\* clamped to [0,100]; a rule whose evaluator raised counts score 0 and its full
\* weight; the fit score is 0 when the weights sum to 0.
C6_FitScoreFormula ==
    Returned =>
      \A i \in ResultIndices :
        Results[i].program # NoValue =>
          LET evals == Results[i].rule_evaluations
              rules == EvaluatedRules(ProgramOf(Results[i]))
              s     == SumScores(evals, 1)
              w     == SumWeights(evals, 1)
          IN  /\ Len(evals) = Len(rules)
              /\ \A j \in 1..Len(evals) :
                   /\ evals[j].rule = rules[j]
                   /\ evals[j].result.weight = rules[j].weight
                   /\ evals[j].result.error => evals[j].result.score = 0
              /\ Results[i].fit_score =
                   IF w = 0 THEN 0 ELSE Clamp(RoundHalfEven(100 * s, w), 0, 10000)

C6_Witness ==
    /\ Returned
    /\ \E i \in ResultIndices :
         /\ Results[i].program # NoValue
         /\ \E j \in 1..Len(Results[i].rule_evaluations) :
              Results[i].rule_evaluations[j].result.error
         /\ \E j \in 1..Len(Results[i].rule_evaluations) :
              /\ ~Results[i].rule_evaluations[j].result.passed
              /\ Results[i].rule_evaluations[j].result.score > 0
         /\ Results[i].fit_score > 0

FirstFailingTier1Check(app, lender) ==
    IF ~lender.active THEN "lender_not_active"
    ELSE IF InSeq(app.business.state, lender.excluded_states) THEN "state_excluded"
    ELSE IF \E k \in 1..Len(lender.excluded_industries) :
              Lower(lender.excluded_industries[k]) = Lower(app.business.industry)
    THEN "industry_excluded"
    ELSE IF lender.min_loan_amount # NoValue
            /\ app.requested_amount < lender.min_loan_amount
    THEN "below_lender_minimum"
    ELSE IF lender.max_loan_amount # NoValue
            /\ app.requested_amount > lender.max_loan_amount
    THEN "exceeds_lender_maximum"
    ELSE "none"

\* C8: when a Tier-1 check fails (lender active, state, industry ignoring case,
\* amount >= minimum, amount <= maximum, bounds only when set), the lender's
\* match is ineligible at tier 1 with the reason of the first failing check,
\* no program and no rule evaluations.
C8_Tier1Rejection ==
    Returned =>
      \A l \in 1..Len(lenders) :
        FirstFailingTier1Check(application, lenders[l]) # "none" =>
          \E i \in ResultIndices :
            /\ Results[i].lender = lenders[l].id
            /\ ~Results[i].is_eligible
            /\ Results[i].rejection_tier = 1
            /\ Results[i].rejection_reason =
                 FirstFailingTier1Check(application, lenders[l])
            /\ Results[i].program = NoValue
            /\ Results[i].rule_evaluations = <<>>

\* A program satisfies its eligibility conditions, as the claim states them:
\* every recognized key that is present holds, unknown keys are ignored.
SatisfiesConditions(app, program) ==
    LET c == program.eligibility_conditions
    IN  /\ GetTruthy(c, "requires_paynet") => app.guarantor.paynet_score # NoValue
        /\ HasKey(c, "legal_structure")
             => InSeq(app.business.legal_structure, c["legal_structure"])
        /\ HasKey(c, "industry")
             => \E k \in 1..Len(c["industry"]) :
                  Lower(c["industry"][k]) = Lower(app.business.industry)
        /\ HasKey(c, "min_revenue")
             => ( app.business.annual_revenue # NoValue
                  /\ app.business.annual_revenue >= c["min_revenue"] )
        /\ GetTruthy(c, "homeowner_required") => app.guarantor.is_homeowner
        /\ GetTruthy(c, "us_citizen_required") => app.guarantor.is_us_citizen

NoProgramSatisfies(app, lender) ==
    \A p \in 1..Len(lender.programs) :
      lender.programs[p].active => ~SatisfiesConditions(app, lender.programs[p])

IsTier2Rejection(r) ==
    /\ ~r.is_eligible
    /\ r.rejection_tier = 2
    /\ r.program = NoValue
    /\ r.rule_evaluations = <<>>

\* C9: a lender that passes Tier 1 is rejected at tier 2 (no program, no rule
\* evaluations) if and only if none of its active programs satisfies its
\* eligibility conditions.
C9_Tier2Rejection ==
    Returned =>
      \A i \in ResultIndices :
        Results[i].rejection_tier # 1 =>
          ( IsTier2Rejection(Results[i])
            <=> NoProgramSatisfies(application, LenderOf(Results[i])) )

Tier2Eligible(app, lender) ==
    LET sel == Tier2ProgramSelection(app, lender, 1)
    IN  { sel[k] : k \in 1..Len(sel) }

\* C10: at Tier 3 the retained program is the Tier-2-eligible program with the
\* maximal fit score and, among programs sharing that score, the first one in
\* the lender's program order.
C10_BestProgram ==
    Returned =>
      \A i \in ResultIndices :
        Results[i].program # NoValue =>
          LET lender == LenderOf(Results[i])
              elig   == Tier2Eligible(application, lender)
              fit(p) == EvaluateProgram(application, lender.programs[p], p).fit_score
          IN  /\ Results[i].program \in elig
              /\ Results[i].fit_score = fit(Results[i].program)
              /\ \A q \in elig :
                   /\ fit(q) <= Results[i].fit_score
                   /\ fit(q) = Results[i].fit_score => q >= Results[i].program

C10_Witness ==
    /\ Returned
    /\ \E i \in ResultIndices :
         LET lender == LenderOf(Results[i])
             elig   == Tier2Eligible(application, lender)
             fit(p) == EvaluateProgram(application, lender.programs[p], p).fit_score
         IN  /\ Results[i].program = 1
             /\ 2 \in elig
             /\ fit(2) = Results[i].fit_score
             /\ Results[i].fit_score > 0

\* Position of the lender of match r in the enumeration handed to the matcher.
EnumIndex(r) == CHOOSE l \in 1..Len(lenders) : lenders[l].id = r.lender

\* C11: in the returned list every eligible entry precedes every ineligible
\* entry, the fit score is non-increasing within each of the two groups, and
\* entries with the same eligibility and the same fit score keep the
\* enumeration order of their lenders.
C11_RankedOrder ==
    Returned =>
      \A i \in ResultIndices : \A j \in ResultIndices :
        i < j =>
          /\ Results[j].is_eligible => Results[i].is_eligible
          /\ Results[i].is_eligible = Results[j].is_eligible
               => Results[i].fit_score >= Results[j].fit_score
          /\ ( Results[i].is_eligible = Results[j].is_eligible
               /\ Results[i].fit_score = Results[j].fit_score )
               => EnumIndex(Results[i]) < EnumIndex(Results[j])

C11_Witness ==
    /\ Returned
    /\ Len(Results) = 3
    /\ Results[1].is_eligible /\ ~Results[3].is_eligible
    /\ \E i \in ResultIndices : \E j \in ResultIndices :
         /\ i < j
         /\ Results[i].is_eligible = Results[j].is_eligible
         /\ Results[i].fit_score = Results[j].fit_score
    /\ \E i \in ResultIndices : \E j \in ResultIndices :
         i < j /\ EnumIndex(Results[i]) > EnumIndex(Results[j])

Complete(app) == app.has_business /\ app.has_guarantor /\ app.has_equipment

\* C16: in evaluate_program, an active rule whose evaluator raises yields a
\* result with passed=false, score 0, the rule's weight and mandatory flag and
\* evidence.error set; every other evaluated rule still has its result, in
\* order, and no exception leaves evaluate_program.
C16_EvaluatorErrorContained ==
    ( mpc = "done" /\ Complete(application) ) =>
      \A l \in 1..Len(lenders) : \A p \in 1..Len(lenders[l].programs) :
        LET rules == EvaluatedRules(lenders[l].programs[p])
            r     == EvaluateProgram(application, lenders[l].programs[p], p)
        IN  /\ ~r.raised
            /\ Len(r.rule_results) = Len(rules)
            /\ \A j \in 1..Len(rules) :
                 /\ r.rule_results[j].rule = rules[j]
                 /\ IF Evaluate(application, rules[j]).raised
                    THEN /\ ~r.rule_results[j].result.passed
                         /\ r.rule_results[j].result.score = 0
                         /\ r.rule_results[j].result.weight = rules[j].weight
                         /\ r.rule_results[j].result.is_mandatory
                              = rules[j].is_mandatory
                         /\ r.rule_results[j].result.error
                    ELSE r.rule_results[j].result = Evaluate(application, rules[j])

C16_Witness ==
    /\ mpc = "done" /\ Complete(application)
    /\ \E l \in 1..Len(lenders) : \E p \in 1..Len(lenders[l].programs) :
         LET rules == EvaluatedRules(lenders[l].programs[p])
             r     == EvaluateProgram(application, lenders[l].programs[p], p)
         IN  /\ Len(rules) = 2
             /\ Evaluate(application, rules[1]).raised
             /\ rules[1].is_mandatory
             /\ r.rule_results[1].result.error
             /\ r.rule_results[2].result.passed

\* A row qualifies, as the claim states it: its amount range contains the
\* amount, both ends inclusive, and its term bounds, when present, contain the
\* term.
Qualifies(row, amount, term) ==
    /\ row.min_amount # NoValue /\ row.max_amount # NoValue /\ row.rate # NoValue
    /\ row.min_amount <= amount /\ amount <= row.max_amount
    /\ row.min_term = NoValue \/ term >= row.min_term
    /\ row.max_term = NoValue \/ term <= row.max_term

FirstQualifying(rows, amount, term) ==
    IF \E k \in 1..Len(rows) : Qualifies(rows[k], amount, term)
    THEN rows[CHOOSE k \in 1..Len(rows) :
                /\ Qualifies(rows[k], amount, term)
                /\ \A h \in 1..(k - 1) : ~Qualifies(rows[h], amount, term)].rate
    ELSE NoValue

\* C20: the base rate is the rate of the first row, in list order, whose
\* amount range contains the requested amount and whose term bounds, when the
\* row has them, contain the requested term; the estimated rate is null when
\* no row qualifies.
C20_BaseRateResolution ==
    Returned =>
      \A i \in ResultIndices :
        ( Results[i].program # NoValue
          /\ HasKey(ProgramOf(Results[i]).rate_metadata, "base_rates") ) =>
            Results[i].estimated_rate =
              IF FirstQualifying(ProgramOf(Results[i]).rate_metadata.base_rates,
                                 application.requested_amount,
                                 application.requested_term_months) = NoValue
              THEN NoValue
              ELSE Max(0, FirstQualifying(
                              ProgramOf(Results[i]).rate_metadata.base_rates,
                              application.requested_amount,
                              application.requested_term_months)
                          + TotalAdjustment(
                              ProgramOf(Results[i]).rate_metadata.adjustments,
                              AgeYears(application.equipment, CurrentYear),
                              application.guarantor.fico_score, 1))

HasPrefix(s, prefix) ==
    Len(s) >= Len(prefix) /\ SubSeq(s, 1, Len(prefix)) = prefix

OpText(op) ==
    CASE op = "<"  -> << "<" >>
      [] op = "<=" -> << "<", "=" >>
      [] op = ">"  -> << ">" >>
      [] op = ">=" -> << ">", "=" >>

\* The condition, stripped and lower-cased, reads name op int with optional
\* blanks around the operator, and value op int holds.
ReadsAs(text, name, op, value) ==
    /\ HasPrefix(text, name)
    /\ HasPrefix(Strip(SubSeq(text, Len(name) + 1, Len(text))), OpText(op))
    /\ ParseInt(Strip(After(Strip(SubSeq(text, Len(name) + 1, Len(text))),
                            OpText(op)))).ok
    /\ value # NoValue
    /\ CompareOp(op, value,
                 ParseInt(Strip(After(Strip(SubSeq(text, Len(name) + 1, Len(text))),
                                      OpText(op)))).value)

\* Truth of a condition by the grammar <var> <op> <int>.
ConditionHolds(condition, equipment_age_years, fico_score) ==
    \E op \in { "<", "<=", ">", ">=" } :
       \/ ReadsAs(LowerStr(Strip(condition)), EquipmentAgeName, op, equipment_age_years)
       \/ ReadsAs(LowerStr(Strip(condition)), FicoName, op, fico_score)

RECURSIVE SumOfDeltas(_, _, _, _)
SumOfDeltas(adjustments, equipment_age_years, fico_score, i) ==
    IF i > Len(adjustments) THEN 0
    ELSE (IF ConditionHolds(adjustments[i].condition, equipment_age_years, fico_score)
          THEN adjustments[i].delta ELSE 0)
         + SumOfDeltas(adjustments, equipment_age_years, fico_score, i + 1)

\* C21: when a base rate is found, the estimated rate is max(0, base + the sum
\* of the deltas of exactly the adjustments whose condition <var> <op> <int>
\* holds for the context value); a condition whose variable is absent or that
\* does not match the grammar counts as false.
C21_RateAdjustments ==
    Returned =>
      \A i \in ResultIndices :
        ( Results[i].program # NoValue
          /\ HasKey(ProgramOf(Results[i]).rate_metadata, "base_rates")
          /\ FindBaseRate(ProgramOf(Results[i]).rate_metadata.base_rates,
                          application.requested_amount, 1) # NoValue ) =>
            Results[i].estimated_rate =
              Max(0, FindBaseRate(ProgramOf(Results[i]).rate_metadata.base_rates,
                                  application.requested_amount, 1)
                     + SumOfDeltas(ProgramOf(Results[i]).rate_metadata.adjustments,
                                   AgeYears(application.equipment, CurrentYear),
                                   application.guarantor.fico_score, 1))

\* The line through (x0, y0) and (x1, y1) at x, in probability units.
Interpolate(x, x0, y0, x1, y1) ==
    ProbabilityUnit * y0 + (ProbabilityUnit * (y1 - y0) * (x - x0)) \div (x1 - x0)

\* No remainder is lost in Interpolate at x.
ExactAt(x, x0, y0, x1, y1) == (ProbabilityUnit * (y1 - y0) * (x - x0)) % (x1 - x0) = 0

\* C22: the approval probability of a match with a program is 0 when its
\* mandatory rules did not all pass, and otherwise lies in [0,100] and follows
\* the piecewise map of the fit score: >= 90 gives min(100, fit_score), [80,90)
\* runs from 70 to 89, [70,80) from 50 to 69, [60,70) from 30 to 49, and below
\* 60 from 10 at 0 to 29 at 60, never below 10.
C22_ApprovalProbability ==
    Returned =>
      \A i \in ResultIndices :
        Results[i].program # NoValue =>
          LET f == Results[i].fit_score
              p == Results[i].approval_probability
          IN  IF ~MandatoryAllPassed(Results[i].rule_evaluations) THEN p = 0
              ELSE /\ 0 <= p /\ p <= ProbabilityUnit * 10000
                   /\ f >= 9000 => p = ProbabilityUnit * Min(10000, f)
                   /\ ( 8000 <= f /\ f < 9000 )
                        => ( p = Interpolate(f, 8000, 7000, 9000, 8900)
                             /\ ExactAt(f, 8000, 7000, 9000, 8900) )
                   /\ ( 7000 <= f /\ f < 8000 )
                        => ( p = Interpolate(f, 7000, 5000, 8000, 6900)
                             /\ ExactAt(f, 7000, 5000, 8000, 6900) )
                   /\ ( 6000 <= f /\ f < 7000 )
                        => ( p = Interpolate(f, 6000, 3000, 7000, 4900)
                             /\ ExactAt(f, 6000, 3000, 7000, 4900) )
                   /\ f < 6000
                        => ( p = Max(ProbabilityUnit * 1000,
                                     Interpolate(f, 0, 1000, 6000, 2900))
                             /\ ExactAt(f, 0, 1000, 6000, 2900) )

C22_Witness ==
    /\ Returned
    /\ \E i \in ResultIndices :
         /\ Results[i].program # NoValue
         /\ MandatoryAllPassed(Results[i].rule_evaluations)
         /\ 7000 < Results[i].fit_score /\ Results[i].fit_score < 8000
         /\ Results[i].approval_probability > ProbabilityUnit * 5000
    /\ \E l \in 1..Len(lenders) : \E q \in 1..Len(lenders[l].programs) :
         \E k \in 1..Len(lenders[l].programs[q].rules) :
           lenders[l].programs[q].rules[k].is_mandatory

\* What two executions are compared on.
Signature(out) ==
    [ i \in 1..Len(out.results) |->
        << out.results[i].lender, out.results[i].program, out.results[i].is_eligible,
           out.results[i].fit_score, out.results[i].rejection_tier >> ]

EvaluatedAndPassed(evals, rule) ==
    \E j \in 1..Len(evals) : evals[j].rule = rule /\ evals[j].result.passed

Evaluated(r, p) == EvaluateProgram(application, LenderOf(r).programs[p], p)

\* The Tier-2-eligible program that Tier 3 retains: the first of maximal fit score.
Retained(r) ==
    CHOOSE p \in Tier2Eligible(application, LenderOf(r)) :
      \A q \in Tier2Eligible(application, LenderOf(r)) :
        \/ Evaluated(r, q).fit_score < Evaluated(r, p).fit_score
        \/ Evaluated(r, q).fit_score = Evaluated(r, p).fit_score /\ q >= p

\* C25 as stated: a lender that passed Tier 1 and has a Tier-2-eligible
\* program that the rule engine evaluates as eligible gets an eligible match.
C25_EligibleProgramMatches ==
    Returned =>
      \A i \in ResultIndices :
        ( /\ Results[i].program # NoValue
          /\ \E q \in Tier2Eligible(application, LenderOf(Results[i])) :
               Evaluated(Results[i], q).is_eligible )
          => Results[i].is_eligible

\* C25 amended: the match of a lender that passed Tier 1 and Tier 2 is
\* eligible exactly when its retained program, the first Tier-2-eligible
\* program of maximal fit score, is evaluated as eligible; otherwise the lender
\* is rejected at tier 3, whatever its other programs evaluate to.
C25_RetainedProgramDecides ==
    Returned =>
      \A i \in ResultIndices :
        Results[i].program # NoValue =>
          /\ Results[i].program = Retained(Results[i])
          /\ Results[i].is_eligible
               = Evaluated(Results[i], Retained(Results[i])).is_eligible
          /\ ( Results[i].rejection_tier = 3 ) = ~Results[i].is_eligible

\* A lender rejected at tier 3 although another of its programs is eligible.
C25_Witness ==
    /\ Returned
    /\ \E i \in ResultIndices :
         /\ Results[i].program # NoValue
         /\ Results[i].rejection_tier = 3
         /\ \E q \in Tier2Eligible(application, LenderOf(Results[i])) :
              /\ q # Results[i].program
              /\ Evaluated(Results[i], q).is_eligible

\* C26: in the engine's result for the program of a match, the active rules
\* of a kind without a registered evaluator have no rule result, and
\* total_rules = rules_passed + rules_failed = number of rule results.
C26_SkippedNotCounted ==
    Returned =>
      \A i \in ResultIndices :
        Results[i].program # NoValue =>
          LET r == Evaluated(Results[i], Results[i].program)
          IN  /\ \A j \in 1..Len(r.rule_results) :
                   r.rule_results[j].rule.rule_type \in Registered
              /\ Len(r.rule_results) = Len(EvaluatedRules(ProgramOf(Results[i])))
              /\ r.rules_passed + r.rules_failed = Len(r.rule_results)
              /\ r.total_rules_evaluated = r.rules_passed + r.rules_failed

C28_NewEquipmentAgeZero ==
    ( /\ Returned
      /\ application.equipment.condition = "New"
      /\ application.equipment.year_manufactured = NoValue )
      => \A i \in ResultIndices :
           /\ \A j \in 1..Len(Results[i].rule_evaluations) :
                LET rule   == Results[i].rule_evaluations[j].rule
                    result == Results[i].rule_evaluations[j].result
                IN  ( rule.rule_type = "equipment_age" /\ ~result.error )
                      => result.passed = ( 0 <= rule.criteria["max_age_years"] )
           /\ ( /\ Results[i].program # NoValue
                /\ HasKey(ProgramOf(Results[i]).rate_metadata, "base_rates")
                /\ FindBaseRate(ProgramOf(Results[i]).rate_metadata["base_rates"],
                                application.requested_amount, 1) # NoValue
                /\ \A k \in 1..Len(ProgramOf(Results[i]).rate_metadata["adjustments"]) :
                     ProgramOf(Results[i]).rate_metadata["adjustments"][k]
                       \in EquipmentAdjustments )
                => Results[i].estimated_rate
                     = Max(0, FindBaseRate(ProgramOf(Results[i]).rate_metadata["base_rates"],
                                           application.requested_amount, 1)
                              + SumOfDeltas(ProgramOf(Results[i]).rate_metadata["adjustments"],
                                            0, application.guarantor.fico_score, 1))

\* The persisted rule evaluations of persisted match i.
EvaluationsOf(rows, i) ==
    { j \in 1..Len(rows.rule_evaluations) : rows.rule_evaluations[j].match = i }

\* C29: in every committed Completed run, matched_count + rejected_count =
\* total_lenders_evaluated = number of persisted match results, and every
\* persisted match result has rules_passed + rules_failed =
\* total_rules_evaluated = number of its persisted rule evaluations.
C29_CountsAgree ==
    committed.status = "Completed" =>
      /\ committed.summary.matched_count + committed.summary.rejected_count
           = committed.summary.total_lenders_evaluated
      /\ committed.summary.total_lenders_evaluated = Len(committed.match_results)
      /\ \A i \in 1..Len(committed.match_results) :
           /\ committed.match_results[i].rules_passed
                + committed.match_results[i].rules_failed
                = committed.match_results[i].total_rules_evaluated
           /\ committed.match_results[i].total_rules_evaluated
                = Cardinality(EvaluationsOf(committed, i))

\* A Completed run with a matched and a rejected lender and a persisted
\* rule evaluation.
C29_Witness ==
    /\ committed.status = "Completed"
    /\ committed.summary.matched_count >= 1
    /\ committed.summary.rejected_count >= 1
    /\ Len(committed.match_results) >= 2
    /\ Len(committed.rule_evaluations) >= 1

\* C30: the score of every rule evaluation of a rule whose weight the catalog
\* accepts (0 <= weight <= 999.99) fits the score column of precision 5 and
\* scale 2, so that persisting the rule evaluations never overflows.
C30_ScoreFitsColumn ==
    /\ \A i \in 1..Len(match_out.results) :
         \A j \in 1..Len(match_out.results[i].rule_evaluations) :
           LET rule   == match_out.results[i].rule_evaluations[j].rule
               result == match_out.results[i].rule_evaluations[j].result
           IN  ( 0 <= rule.weight /\ rule.weight <= NumericMax )
                 => result.score <= NumericMax
    /\ caught # NumericOverflow

=============================================================================
